---- MODULE Spec2Model ----
(***************************************************************************)
(* Project performance analytics: the synthetic record generator           *)
(* (generate_project_data.py), the SQLite store with its kpi_metrics view  *)
(* (create_database.py) and the ETL transform step (etl_pipeline.py).      *)
(*                                                                         *)
(* Units.  Money is held in cents, so a cost of 1000.00 is 100000.  A      *)
(* percentage rounded to 2 decimals is held as an integer number of        *)
(* hundredths of a percent, so 10.00 is 1000 and 0.13 is 13.  Arithmetic   *)
(* is exact (rational); rounding modes are modelled as the two engines     *)
(* apply them: SQLite ROUND rounds ties away from zero, pandas/numpy       *)
(* round rounds ties to even.                                              *)
(***************************************************************************)
EXTENDS Integers, Sequences, FiniteSets, TLC

VARIABLES
    csv_row,         \* one row of a department input file (a Project record)
    db_pc,           \* store position: "start" | "loaded" | "queried"
    projects_table,  \* rows of the SQLite table projects
    kpi_metrics,     \* rows returned by SELECT * FROM kpi_metrics
    df,              \* the ETL dataframe row after transform_data, NoRow before
    gen_call,        \* arguments and random outcomes of one generate_realistic_project call
    project,         \* value returned by generate_realistic_project
    gen_pc,          \* generator script position
    gen_dept,        \* index in DeptOrder of the department being generated
    num_projects,    \* argument num_projects of generate_department_dataset
    project_names,   \* random.sample(config['project_types'], num_projects)
    i,               \* loop counter of generate_department_dataset
    projects,        \* list of projects built by generate_department_dataset
    csv_files,       \* department -> rows written by to_csv
    val_files,       \* validator: the three department CSV files on disk
    val_pc,          \* validator: position in validate_datasets
    frames,          \* validator: dataframes marketing, operations, it, all_data
    validation_passed, \* validator: local validation_passed
    issues,          \* validator: local issues (list)
    warnings,        \* validator: warning lines printed
    val_return,      \* validator: "none" | "True" | "False" | "KeyError"
    val_exit,        \* validator: exit status of the process, "none" while it runs
    in_files,        \* loaders: the three department CSV files on disk
    script,          \* loaders: "create_database" | "etl"
    load_pc,         \* loaders: position in the script
    load_run,        \* loaders: number of the current run of the script
    db_exists,       \* create_database: project_performance.db exists
    db_projects,     \* create_database: rows of table projects (committed)
    db_managers,     \* create_database: rows of table managers (committed)
    db_uncommitted,  \* create_database: manager rows inserted, not yet committed
    load_report,     \* loaders: files reported as missing or failing
    etl_tables,      \* ETL: table name -> rows
    etl_return,      \* ETL: "none" | "True" | "False"
    first_run,       \* loaders: table contents at the end of the first run
    now,             \* loaders: the clock read by CURRENT_TIMESTAMP / datetime.now()
    response,        \* create_database: the answer typed at the overwrite prompt
    mysql_up,        \* ETL: the MySQL server accepts connections
    etl_steps,       \* ETL: the steps run_etl_pipeline has started, in order
    kpis,            \* ETL: the dictionary calculate_kpis returned
    etl_exit,        \* ETL: exit status of the process, "none" while it runs
    store,           \* report: the file project_performance.db and its tables
    rp_pc,           \* report: position in test_database_queries
    risk_df,         \* report: the frame read by risk_query
    export_file,     \* report: consolidated_projects.csv
    rp_messages      \* report: conditions test_database_queries printed

kpiVars == <<csv_row, db_pc, projects_table, kpi_metrics, df>>
projVars == <<gen_call, project>>
genVars == <<gen_pc, gen_dept, num_projects, project_names, i, projects, csv_files>>
valVars == <<val_files, val_pc, frames, validation_passed, issues, warnings, val_return,
             val_exit>>
loadVars == <<in_files, script, load_pc, load_run, db_exists, db_projects, db_managers,
              db_uncommitted, load_report, etl_tables, etl_return, first_run, now,
              response, mysql_up, etl_steps, kpis, etl_exit>>
reportVars == <<store, rp_pc, risk_df, export_file, rp_messages>>
vars == <<csv_row, db_pc, projects_table, kpi_metrics, df, gen_call, project,
          gen_pc, gen_dept, num_projects, project_names, i, projects, csv_files,
          val_files, val_pc, frames, validation_passed, issues, warnings, val_return,
          val_exit,
          in_files, script, load_pc, load_run, db_exists, db_projects, db_managers,
          db_uncommitted, load_report, etl_tables, etl_return, first_run, now,
          response, mysql_up, etl_steps, kpis, etl_exit,
          store, rp_pc, risk_df, export_file, rp_messages>>

----------------------------------------------------------------------------
(* Bounds of the model *)

\* number of steps a uniform draw is cut into: a draw takes Grain+1 values
Grain == 1

\* size of the project name pool of a department (20 in the repository)
PoolSize == 3

\* largest num_projects the dataset generator is called with
MaxNumProjects == 4

----------------------------------------------------------------------------
(* Arithmetic helpers *)

Abs(n) == IF n < 0 THEN -n ELSE n

Sign(n) == IF n < 0 THEN -1 ELSE 1

\* integer division truncating toward zero: SQLite integer '/', Python int()
TruncDiv(a, b) == Sign(a) * Sign(b) * (Abs(a) \div Abs(b))

\* floor(a * 10000 / b) and its remainder for a >= 0, b > 0, computed two
\* decimal digits at a time so that no intermediate product leaves 32 bits
Hundredths(a, b) ==
    LET q0 == a \div b
        r0 == a % b
        q1 == (r0 * 100) \div b
        r1 == (r0 * 100) % b
        q2 == (r1 * 100) \div b
        r2 == (r1 * 100) % b
    IN  [q |-> q0 * 10000 + q1 * 100 + q2, r |-> r2]

\* a / b * 100 rounded to 2 decimals, ties away from zero (SQLite ROUND),
\* as a number of hundredths
RoundHalfAway(a, b) ==
    LET p == Hundredths(Abs(a), Abs(b))
    IN  Sign(a) * Sign(b) * (IF 2 * p.r >= Abs(b) THEN p.q + 1 ELSE p.q)

\* a / b * 100 rounded to 2 decimals, ties to even (numpy rint), as a number
\* of hundredths
RoundHalfEven(a, b) ==
    LET p == Hundredths(Abs(a), Abs(b))
    IN  Sign(a) * Sign(b) *
        (IF 2 * p.r > Abs(b) THEN p.q + 1
         ELSE IF 2 * p.r = Abs(b) THEN p.q + (p.q % 2)
         ELSE p.q)

\* values a derived metric can take: a number (in hundredths), SQL NULL,
\* or the float specials NaN, +inf, -inf
Num(h) == [kind |-> "num", h |-> h]
Null == [kind |-> "null", h |-> 0]
NaN == [kind |-> "nan", h |-> 0]
PosInf == [kind |-> "inf", h |-> 0]
NegInf == [kind |-> "-inf", h |-> 0]

IsUndefined(v) == v.kind \in {"null", "nan"}

NoRow == [none |-> TRUE]
NoProject == [none |-> TRUE]
NoDraw == [none |-> TRUE]


----------------------------------------------------------------------------
(* The store: table projects and view kpi_metrics (create_database.py) *)

valid_statuses == {"Not Started", "In Progress", "Completed", "Delayed", "On Hold"}

\* CHECK constraints of CREATE TABLE projects; a row failing one is refused
ProjectsChecks(r) ==
    /\ r.Planned_Cost >= 0
    /\ r.Actual_Cost >= 0
    /\ r.Planned_Completion >= 0 /\ r.Planned_Completion <= 100
    /\ r.Actual_Completion >= 0 /\ r.Actual_Completion <= 100
    /\ r.Tasks_Completed <= r.Tasks_Total
    /\ r.Status \in valid_statuses

\* ROUND(((Actual_Cost - Planned_Cost) / Planned_Cost * 100), 2): the cost
\* columns are REAL, so '/' is real division and yields NULL on a zero divisor
CostVariancePct(r) ==
    IF r.Planned_Cost = 0 THEN Null
    ELSE Num(RoundHalfAway(r.Actual_Cost - r.Planned_Cost, r.Planned_Cost))

\* ROUND((Tasks_Completed * 100.0 / Tasks_Total), 2): 100.0 makes it real
TaskCompletionPctIntDiv(r) ==
    IF r.Tasks_Total = 0 THEN Null
    ELSE Num(TruncDiv(r.Tasks_Completed * 100, r.Tasks_Total) * 100)

TaskCompletionPct(r) ==
    IF r.Tasks_Total = 0 THEN Null
    ELSE Num(RoundHalfAway(r.Tasks_Completed, r.Tasks_Total))

\* ROUND(((Actual_Hours - Planned_Hours) / Planned_Hours * 100), 2): both
\* columns are INTEGER, so '/' is SQLite integer division (truncating)
HoursVariancePct(r) ==
    IF r.Planned_Hours = 0 THEN Null
    ELSE Num(TruncDiv(r.Actual_Hours - r.Planned_Hours, r.Planned_Hours) * 100 * 100)

DeliveryStatusNoCompletion(r) ==
    IF r.Status = "Completed" THEN "On-Time"
    ELSE IF r.Status = "Delayed" THEN "Delayed"
    ELSE "In-Progress"

DeliveryStatus(r) ==
    IF r.Status = "Completed" /\ r.Actual_Completion = 100 THEN "On-Time"
    ELSE IF r.Status = "Delayed" THEN "Delayed"
    ELSE "In-Progress"

BudgetStatusStrict(r) ==
    IF r.Planned_Cost # 0
       /\ Abs(r.Actual_Cost - r.Planned_Cost) * 100 < 10 * Abs(r.Planned_Cost)
    THEN "Within Budget"
    ELSE IF r.Actual_Cost > r.Planned_Cost THEN "Over Budget"
    ELSE "Under Budget"

\* CASE WHEN ABS((Actual_Cost - Planned_Cost) / Planned_Cost * 100) <= 10 ...:
\* the unrounded quotient is compared; with a zero divisor the comparison is
\* NULL, which is not true, so the CASE falls through to the next WHEN
BudgetStatus(r) ==
    IF r.Planned_Cost # 0
       /\ Abs(r.Actual_Cost - r.Planned_Cost) * 100 <= 10 * Abs(r.Planned_Cost)
    THEN "Within Budget"
    ELSE IF r.Actual_Cost > r.Planned_Cost THEN "Over Budget"
    ELSE "Under Budget"

\* one row of the view kpi_metrics, computed from one row of projects
KpiMetricsRow(r) ==
    [Status |-> r.Status,
     Planned_Cost |-> r.Planned_Cost,
     Actual_Cost |-> r.Actual_Cost,
     Cost_Variance |-> r.Actual_Cost - r.Planned_Cost,
     Cost_Variance_Pct |-> CostVariancePct(r),
     Planned_Completion |-> r.Planned_Completion,
     Actual_Completion |-> r.Actual_Completion,
     Completion_Variance |-> r.Actual_Completion - r.Planned_Completion,
     Tasks_Total |-> r.Tasks_Total,
     Tasks_Completed |-> r.Tasks_Completed,
     Task_Completion_Pct |-> TaskCompletionPct(r),
     Planned_Hours |-> r.Planned_Hours,
     Actual_Hours |-> r.Actual_Hours,
     Hours_Variance |-> r.Actual_Hours - r.Planned_Hours,
     Hours_Variance_Pct |-> HoursVariancePct(r),
     Delivery_Status |-> DeliveryStatus(r),
     Budget_Status |-> BudgetStatus(r)]

----------------------------------------------------------------------------
(* The ETL transform step (etl_pipeline.py) *)

\* float64 num / den * 100 rounded by Series.round(2): a zero divisor gives
\* +inf, -inf or NaN (no exception), which round(2) leaves as it is
FloatPct(num, den) ==
    IF den = 0
    THEN (IF num > 0 THEN PosInf ELSE IF num < 0 THEN NegInf ELSE NaN)
    ELSE Num(RoundHalfEven(num, den))

\* the columns transform_data adds to a row
TransformRow(r) ==
    [Planned_Cost |-> r.Planned_Cost,
     Actual_Cost |-> r.Actual_Cost,
     Planned_Completion |-> r.Planned_Completion,
     Actual_Completion |-> r.Actual_Completion,
     Cost_Variance_Pct |-> FloatPct(r.Actual_Cost - r.Planned_Cost, r.Planned_Cost),
     On_Time |-> (r.Actual_Completion >= r.Planned_Completion),
     Completion_Rate_Pct |-> FloatPct(r.Actual_Completion, r.Planned_Completion)]

----------------------------------------------------------------------------
(* Input rows: externally supplied project records (one row of a CSV file) *)

PlannedCosts == {0, 80000, 100000, 10000000}
ActualCosts == {0, 80100, 90000, 110000, 120000, 11000400}
PlannedCompletions == {0, 100}
ActualCompletions == {0, 90, 100}
TasksTotals == {0, 3}
TasksCompleteds == {-1, 0, 1, 3, 4}
PlannedHoursSet == {0, 400}
ActualHoursSet == {300, 500, 900}

CsvRows ==
    [Planned_Cost : PlannedCosts, Actual_Cost : ActualCosts,
     Planned_Completion : PlannedCompletions, Actual_Completion : ActualCompletions,
     Status : valid_statuses,
     Tasks_Total : TasksTotals, Tasks_Completed : TasksCompleteds,
     Planned_Hours : PlannedHoursSet, Actual_Hours : ActualHoursSet]

----------------------------------------------------------------------------
(* The record generator (generate_project_data.py) *)

DeptOrder == <<"Marketing", "Operations", "IT">>

\* config['project_types']: PoolSize pairwise distinct names per department
ProjectTypes(dept_name) == [k \in 1..PoolSize |-> <<dept_name, k>>]

\* DEPT_CONFIG[dept_name]
DeptConfig(dept_name) ==
    CASE dept_name = "Marketing" ->
           [managers |-> <<"John Smith", "Sarah Lee", "Akash Verma", "Emma Watson">>,
            cost_range |-> <<10000, 50000>>,
            duration_range |-> <<14, 84>>,
            project_types |-> ProjectTypes(dept_name)]
      [] dept_name = "Operations" ->
           [managers |-> <<"Priya Mehta", "Ravi Patel", "Aditi Nair", "Vikram Singh">>,
            cost_range |-> <<15000, 75000>>,
            duration_range |-> <<28, 112>>,
            project_types |-> ProjectTypes(dept_name)]
      [] dept_name = "IT" ->
           [managers |-> <<"Neha Sharma", "Karan Gupta", "Rohit Singh", "Anjali Desai">>,
            cost_range |-> <<20000, 100000>>,
            duration_range |-> <<42, 168>>,
            project_types |-> ProjectTypes(dept_name)]

\* id_start of the three module-level generate_department_dataset calls
IdStartSame(dept_name) == 1001

IdStart(dept_name) ==
    CASE dept_name = "Marketing" -> 1001
      [] dept_name = "Operations" -> 2001
      [] dept_name = "IT" -> 3001

\* random.randint(lo, hi) and random.uniform(lo, hi): the draw u in 0..Grain
\* selects the point lo + (hi - lo) * u / Grain of the range
RandPoint(lo, hi, u) == lo + ((hi - lo) * u) \div Grain

\* round(a / b) with ties to even (Python round on the exact quotient)
PyRound(a, b) ==
    LET q == Abs(a) \div Abs(b)
        r == Abs(a) % Abs(b)
    IN  Sign(a) * Sign(b) *
        (IF 2 * r > Abs(b) THEN q + 1
         ELSE IF 2 * r = Abs(b) THEN q + (q % 2)
         ELSE q)

\* days before the first of each month
CumDaysLeap == <<0, 31, 60, 91, 121, 152, 182, 213, 244, 274, 305, 335>>
CumDays == <<0, 31, 59, 90, 120, 151, 181, 212, 243, 273, 304, 334>>

\* datetime(2024, month, day) as a day number, 1 being 2024-01-01
Ordinal2024(month, day) == CumDaysLeap[month] + day

\* strftime('%Y-%m-%d') of day number n, as <<year, month, day>>; covers
\* 2024 (a leap year) and 2025
FormatDate(n) ==
    LET year == IF n <= 366 THEN 2024 ELSE 2025
        cum == IF n <= 366 THEN CumDaysLeap ELSE CumDays
        doy == IF n <= 366 THEN n ELSE n - 366
        month == CHOOSE m \in 1..12 :
                     /\ cum[m] < doy
                     /\ (m = 12 \/ doy <= cum[m + 1])
    IN  <<year, month, doy - cum[month]>>

\* order of two formatted dates
DateLess(a, b) ==
    \/ a[1] < b[1]
    \/ a[1] = b[1] /\ a[2] < b[2]
    \/ a[1] = b[1] /\ a[2] = b[2] /\ a[3] < b[3]

TasksCompletedDoubled(tasks_total, actual_completion) ==
    (tasks_total * actual_completion) \div 50

\* int(tasks_total * (actual_completion / 100)) in float64: the floor of the
\* exact product, except for 50 * 0.58 = 28.999999999999996, the one pair
\* of the generator's ranges whose float product falls below the integer
TasksCompletedOf(tasks_total, actual_completion) ==
    IF tasks_total = 50 /\ actual_completion = 58 THEN 28
    ELSE (tasks_total * actual_completion) \div 100

\* the status bucket of status_roll = random.random(), in hundredths
StatusOf(status_roll) ==
    IF status_roll < 40 THEN "Completed"
    ELSE IF status_roll < 75 THEN "In Progress"
    ELSE IF status_roll < 85 THEN "Delayed"
    ELSE IF status_roll < 95 THEN "Not Started"
    ELSE "On Hold"

\* the columns of a generated project that are its arguments
ProjectKey(dept_name, project_id, project_name) ==
    [Project_ID |-> project_id,
     Department |-> dept_name,
     Project_Name |-> project_name]

\* generate_realistic_project(dept_name, project_id, project_name, config)
\* under the random outcomes c; costs in cents, variances in 1/10000
GenerateRealisticProject(dept_name, project_id, project_name, config, c) ==
    LET manager == config.managers[RandPoint(1, Len(config.managers), c.manager_u)]
        start_date == Ordinal2024(c.start[1], c.start[2])
        duration_days == RandPoint(config.duration_range[1],
                                   config.duration_range[2], c.duration_u)
        end_date == start_date + duration_days
        planned_cost == RandPoint(config.cost_range[1], config.cost_range[2],
                                  c.planned_cost_u)
        cost_variance == RandPoint(-1500, 2000, c.cost_variance_u)
        actual_cost == PyRound(planned_cost * (10000 + cost_variance), 100)
        tasks_total == RandPoint(30, 80, c.tasks_total_u)
        status == StatusOf(c.status_roll)
        actual_completion ==
            CASE status = "Completed" -> 100
              [] status = "In Progress" -> RandPoint(50, 95, c.completion_u)
              [] status = "Delayed" -> RandPoint(70, 90, c.completion_u)
              [] status = "Not Started" -> 0
              [] status = "On Hold" -> RandPoint(20, 60, c.completion_u)
        tasks_completed ==
            CASE status = "Completed" -> tasks_total
              [] status = "Not Started" -> 0
              [] OTHER -> TasksCompletedOf(tasks_total, actual_completion)
        planned_hours == RandPoint(400, 1200, c.planned_hours_u)
        hours_variance ==
            CASE status = "Completed" -> RandPoint(-1000, 2500, c.hours_variance_u)
              [] status = "In Progress" ->
                     RandPoint(0, actual_completion * 100, c.hours_variance_u)
              [] OTHER -> RandPoint(0, 5000, c.hours_variance_u)
        actual_hours == TruncDiv(planned_hours * (10000 + hours_variance), 10000)
    IN  [Project_ID |-> project_id,
         Department |-> dept_name,
         Project_Name |-> project_name,
         Manager |-> manager,
         Start_Date |-> FormatDate(start_date),
         End_Date |-> FormatDate(end_date),
         Planned_Cost |-> planned_cost * 100,
         Actual_Cost |-> actual_cost,
         Planned_Completion |-> 100,
         Actual_Completion |-> actual_completion,
         Status |-> status,
         Tasks_Total |-> tasks_total,
         Tasks_Completed |-> tasks_completed,
         Planned_Hours |-> planned_hours,
         Actual_Hours |-> actual_hours]

\* outcomes of the random draws of one call
StartDates == {<<7, 1>>, <<12, 28>>}
StatusRolls == {0, 39, 40, 75, 85, 95}

GenCalls ==
    [dept_name : {DeptOrder[k] : k \in 1..3},
     start : StartDates,
     status_roll : StatusRolls,
     manager_u : 0..Grain, duration_u : 0..Grain, planned_cost_u : 0..Grain,
     cost_variance_u : 0..Grain, tasks_total_u : 0..Grain,
     completion_u : 0..Grain, planned_hours_u : 0..Grain,
     hours_variance_u : 0..Grain]

----------------------------------------------------------------------------
(* Idle values of the generator's variables *)

ProjIdle == gen_call = NoDraw /\ project = NoProject

GenIdle ==
    /\ gen_pc = "idle"
    /\ gen_dept = 0
    /\ num_projects = 0
    /\ project_names = <<>>
    /\ i = 0
    /\ projects = <<>>
    /\ csv_files = <<>>

ValIdle ==
    /\ val_files = <<>>
    /\ val_pc = "idle"
    /\ frames = <<>>
    /\ validation_passed = TRUE
    /\ issues = <<>>
    /\ warnings = {}
    /\ val_return = "none"
    /\ val_exit = "none"

\* consolidated_projects.csv before test_database_queries has written it
NoExport == [written |-> FALSE, rows |-> {}]

ReportIdle ==
    /\ store = <<>>
    /\ rp_pc = "idle"
    /\ risk_df = {}
    /\ export_file = NoExport
    /\ rp_messages = {}

LoadIdle ==
    /\ in_files = <<>>
    /\ script = "none"
    /\ load_pc = "idle"
    /\ load_run = 0
    /\ db_exists = FALSE
    /\ db_projects = <<>>
    /\ db_managers = {}
    /\ db_uncommitted = {}
    /\ load_report = {}
    /\ etl_tables = <<>>
    /\ etl_return = "none"
    /\ first_run = <<>>
    /\ now = 0
    /\ response = ""
    /\ mysql_up = TRUE
    /\ etl_steps = <<>>
    /\ kpis = <<>>
    /\ etl_exit = "none"

KpiIdle ==
    /\ csv_row = NoRow
    /\ db_pc = "idle"
    /\ projects_table = {}
    /\ kpi_metrics = {}
    /\ df = NoRow

----------------------------------------------------------------------------
(* Specification of the store, its view and the ETL transform over one row *)

Init ==
    /\ csv_row \in CsvRows
    /\ db_pc = "start"
    /\ projects_table = {}
    /\ kpi_metrics = {}
    /\ df = NoRow
    /\ ProjIdle
    /\ GenIdle
    /\ ValIdle
    /\ LoadIdle
    /\ ReportIdle

\* df.to_sql('projects', conn, if_exists='append'): the row is inserted when
\* the CHECK constraints accept it; otherwise the insert raises, the error is
\* caught and reported, and the table is left as it was
ToSql ==
    /\ db_pc = "start"
    /\ db_pc' = "loaded"
    /\ projects_table' = IF ProjectsChecks(csv_row) THEN {csv_row} ELSE {}
    /\ UNCHANGED <<csv_row, kpi_metrics, df, projVars, genVars, valVars, loadVars, reportVars>>

\* SELECT * FROM kpi_metrics
SelectKpiMetrics ==
    /\ db_pc = "loaded"
    /\ db_pc' = "queried"
    /\ kpi_metrics' = {KpiMetricsRow(r) : r \in projects_table}
    /\ UNCHANGED <<csv_row, projects_table, df, projVars, genVars, valVars, loadVars, reportVars>>

\* df = transform_data(df)
TransformData ==
    /\ df = NoRow
    /\ df' = TransformRow(csv_row)
    /\ UNCHANGED <<csv_row, db_pc, projects_table, kpi_metrics, projVars, genVars, valVars, loadVars, reportVars>>

Next == ToSql \/ SelectKpiMetrics \/ TransformData

Spec == Init /\ [][Next]_vars

----------------------------------------------------------------------------
(* Specification of generate_realistic_project over one call *)

ProjInit ==
    /\ gen_call \in GenCalls
    /\ project = NoProject
    /\ KpiIdle
    /\ GenIdle
    /\ ValIdle
    /\ LoadIdle
    /\ ReportIdle

\* project = generate_realistic_project(dept_name, project_id, project_name, config)
CallGenerateRealisticProject ==
    /\ project = NoProject
    /\ project' = GenerateRealisticProject(
                      gen_call.dept_name, IdStart(gen_call.dept_name),
                      ProjectTypes(gen_call.dept_name)[1],
                      DeptConfig(gen_call.dept_name), gen_call)
    /\ UNCHANGED <<gen_call, kpiVars, genVars, valVars, loadVars, reportVars>>

ProjNext == CallGenerateRealisticProject

SpecProject == ProjInit /\ [][ProjNext]_vars

----------------------------------------------------------------------------
(* Specification of the generator script: three department datasets *)

Range(f) == {f[k] : k \in DOMAIN f}

SampleWithReplacement(pool, n) == [1..n -> Range(pool)]

\* random.sample(pool, n): the sequences of n elements of pool taken at
\* pairwise different positions
Sample(pool, n) ==
    {[k \in 1..n |-> pool[pos[k]]] :
        pos \in {q \in [1..n -> DOMAIN pool] :
                    \A a, b \in 1..n : a # b => q[a] # q[b]}}

GenInit ==
    /\ gen_pc = "call"
    /\ gen_dept = 1
    /\ num_projects \in 0..MaxNumProjects
    /\ project_names = <<>>
    /\ i = 0
    /\ projects = <<>>
    /\ csv_files = <<>>
    /\ KpiIdle
    /\ ProjIdle
    /\ ValIdle
    /\ LoadIdle
    /\ ReportIdle

\* generate_department_dataset, up to the loop: the sample of unique names
SampleNames ==
    /\ gen_pc = "call"
    /\ num_projects <= Len(DeptConfig(DeptOrder[gen_dept]).project_types)
    /\ project_names' \in
           Sample(DeptConfig(DeptOrder[gen_dept]).project_types, num_projects)
    /\ projects' = <<>>
    /\ i' = 0
    /\ gen_pc' = "loop"
    /\ UNCHANGED <<gen_dept, num_projects, csv_files, kpiVars, projVars, valVars, loadVars, reportVars>>

\* random.sample raises ValueError when the sample is larger than the pool;
\* nothing catches it and the script ends
SampleTooLarge ==
    /\ gen_pc = "call"
    /\ num_projects > Len(DeptConfig(DeptOrder[gen_dept]).project_types)
    /\ gen_pc' = "error"
    /\ UNCHANGED <<gen_dept, num_projects, project_names, i, projects, csv_files,
                   kpiVars, projVars, valVars, loadVars, reportVars>>

\* one iteration of the loop: the project is generated and appended; the
\* list keeps the columns that are the call's arguments, which the random
\* outcomes of generate_realistic_project do not touch
AppendProject ==
    /\ gen_pc = "loop"
    /\ i < num_projects
    /\ projects' = Append(projects,
                          ProjectKey(DeptOrder[gen_dept],
                                     IdStart(DeptOrder[gen_dept]) + i,
                                     project_names[i + 1]))
    /\ i' = i + 1
    /\ UNCHANGED <<gen_pc, gen_dept, num_projects, project_names, csv_files,
                   kpiVars, projVars, valVars, loadVars, reportVars>>

\* the loop is over: the dataframe is returned and written by to_csv, and
\* the script goes on to the next department
WriteCsv ==
    /\ gen_pc = "loop"
    /\ i = num_projects
    /\ csv_files' = csv_files @@ (DeptOrder[gen_dept] :> projects)
    /\ IF gen_dept < Len(DeptOrder)
       THEN gen_dept' = gen_dept + 1 /\ gen_pc' = "call"
       ELSE gen_dept' = gen_dept /\ gen_pc' = "done"
    /\ UNCHANGED <<num_projects, project_names, i, projects, kpiVars, projVars, valVars, loadVars, reportVars>>

GenNext == SampleNames \/ SampleTooLarge \/ AppendProject \/ WriteCsv

SpecGen == GenInit /\ [][GenNext]_vars

----------------------------------------------------------------------------
(* Properties of the KPI derivation, checked under Spec *)

\* h is x / y * 100 rounded to 2 decimals (as hundredths), whichever way a
\* tie is broken: no other multiple of 0.01 is nearer to the real quotient
NearestHundredth(h, x, y) == 2 * Abs(h * y - 10000 * x) <= Abs(y)

\* C1 (as claimed): for a project with planned_cost > 0 the view's
\* Cost_Variance_Pct and the transform step's Cost_Variance_% are the same
\* value, (actual_cost - planned_cost) / planned_cost * 100 rounded to 2
\* decimals.
C1_ViewEqualsTransform ==
    (db_pc = "queried" /\ df # NoRow) =>
        \A row \in kpi_metrics :
            row.Planned_Cost > 0 =>
                /\ row.Cost_Variance_Pct = df.Cost_Variance_Pct
                /\ row.Cost_Variance_Pct.kind = "num"
                /\ NearestHundredth(row.Cost_Variance_Pct.h,
                                    row.Actual_Cost - row.Planned_Cost,
                                    row.Planned_Cost)

\* C2 (as claimed): for a stored project with planned_cost > 0, Budget_Status
\* is 'Within Budget' exactly when the absolute value of the rounded
\* Cost_Variance_Pct shown by the same view is <= 10; otherwise 'Over Budget'
\* when actual_cost > planned_cost and 'Under Budget' when not.
C2_BudgetFollowsRoundedPct ==
    \A row \in kpi_metrics :
        row.Planned_Cost > 0 =>
            /\ (row.Budget_Status = "Within Budget")
                   <=> (Abs(row.Cost_Variance_Pct.h) <= 1000)
            /\ (row.Budget_Status = "Over Budget")
                   <=> (Abs(row.Cost_Variance_Pct.h) > 1000
                        /\ row.Actual_Cost > row.Planned_Cost)
            /\ (row.Budget_Status = "Under Budget")
                   <=> (Abs(row.Cost_Variance_Pct.h) > 1000
                        /\ ~(row.Actual_Cost > row.Planned_Cost))

\* C3: the budget boundary is inclusive at 10: planned_cost=1000 with
\* actual_cost=1100 has cost_variance_pct 10.0 and 'Within Budget', and
\* planned_cost=1000 with actual_cost=1200 has 20.0 and 'Over Budget'.
C3_BudgetBoundary ==
    \A row \in kpi_metrics :
        /\ (row.Planned_Cost = 100000 /\ row.Actual_Cost = 110000) =>
               (row.Cost_Variance_Pct = Num(1000)
                /\ row.Budget_Status = "Within Budget")
        /\ (row.Planned_Cost = 100000 /\ row.Actual_Cost = 120000) =>
               (row.Cost_Variance_Pct = Num(2000)
                /\ row.Budget_Status = "Over Budget")

C3_Witness ==
    /\ db_pc = "queried"
    /\ \E row \in kpi_metrics :
           /\ row.Planned_Cost = 100000
           /\ row.Actual_Cost = 110000
           /\ row.Cost_Variance_Pct = Num(1000)
           /\ row.Budget_Status = "Within Budget"

\* C4: Delivery_Status is 'On-Time' exactly when status is Completed and
\* actual_completion is 100, 'Delayed' exactly when status is Delayed, and
\* 'In-Progress' in every other case.
C4_DeliveryStatus ==
    \A row \in kpi_metrics :
        LET onTime == row.Status = "Completed" /\ row.Actual_Completion = 100
            delayed == row.Status = "Delayed"
        IN  /\ (row.Delivery_Status = "On-Time") <=> onTime
            /\ (row.Delivery_Status = "Delayed") <=> delayed
            /\ (row.Delivery_Status = "In-Progress") <=> (~onTime /\ ~delayed)

C4_Witness ==
    /\ db_pc = "queried"
    /\ \E row \in kpi_metrics :
           /\ row.Status = "Completed"
           /\ row.Actual_Completion = 90
           /\ row.Delivery_Status = "In-Progress"

\* C5 (as claimed): for a stored project with planned_hours > 0,
\* Hours_Variance_Pct is (actual_hours - planned_hours) / planned_hours * 100
\* rounded to 2 decimals, a real-valued quotient (400 and 500 give 25.0).
C5_HoursPctIsRealQuotient ==
    \A row \in kpi_metrics :
        row.Planned_Hours > 0 =>
            /\ row.Hours_Variance_Pct.kind = "num"
            /\ NearestHundredth(row.Hours_Variance_Pct.h,
                                row.Actual_Hours - row.Planned_Hours,
                                row.Planned_Hours)

\* C6 (as claimed): for a stored project with tasks_total > 0,
\* Task_Completion_Pct is tasks_completed / tasks_total * 100 rounded to 2
\* decimals and lies in [0, 100] whenever tasks_completed <= tasks_total;
\* with tasks_total = 0 it is null.
C6_TaskPctOriginal ==
    \A row \in kpi_metrics :
        /\ row.Tasks_Total > 0 =>
               /\ row.Task_Completion_Pct.kind = "num"
               /\ NearestHundredth(row.Task_Completion_Pct.h,
                                   row.Tasks_Completed, row.Tasks_Total)
               /\ row.Tasks_Completed <= row.Tasks_Total =>
                      (0 <= row.Task_Completion_Pct.h
                       /\ row.Task_Completion_Pct.h <= 10000)
        /\ row.Tasks_Total = 0 => row.Task_Completion_Pct = Null

\* C6 (amended): as above, with the range [0, 100] stated for
\* 0 <= tasks_completed <= tasks_total.
C6_TaskPct ==
    \A row \in kpi_metrics :
        /\ row.Tasks_Total > 0 =>
               /\ row.Task_Completion_Pct.kind = "num"
               /\ NearestHundredth(row.Task_Completion_Pct.h,
                                   row.Tasks_Completed, row.Tasks_Total)
               /\ (0 <= row.Tasks_Completed
                   /\ row.Tasks_Completed <= row.Tasks_Total) =>
                      (0 <= row.Task_Completion_Pct.h
                       /\ row.Task_Completion_Pct.h <= 10000)
        /\ row.Tasks_Total = 0 => row.Task_Completion_Pct = Null

C6_Witness ==
    /\ db_pc = "queried"
    /\ \E row \in kpi_metrics :
           /\ row.Tasks_Total = 3
           /\ row.Tasks_Completed = 1
           /\ row.Task_Completion_Pct = Num(3333)

\* C7 (as claimed): every KPI division is guarded: with planned_cost = 0,
\* tasks_total = 0 or planned_hours = 0 (and planned_completion = 0 in the
\* transform step) each affected metric of the view and of transform_data
\* is null/NaN, never a finite or infinite number.
C7_DivisionsGuarded ==
    /\ \A row \in kpi_metrics :
           /\ row.Planned_Cost = 0 => IsUndefined(row.Cost_Variance_Pct)
           /\ row.Tasks_Total = 0 => IsUndefined(row.Task_Completion_Pct)
           /\ row.Planned_Hours = 0 => IsUndefined(row.Hours_Variance_Pct)
    /\ df # NoRow =>
           /\ df.Planned_Cost = 0 => IsUndefined(df.Cost_Variance_Pct)
           /\ df.Planned_Completion = 0 => IsUndefined(df.Completion_Rate_Pct)

----------------------------------------------------------------------------
(* Properties of the record generator *)

\* C8 (checked under SpecProject): every record produced by
\* generate_realistic_project, for every department configuration and every
\* outcome of the random draws, has tasks_completed <= tasks_total,
\* 0 <= actual_completion <= 100, 0 <= planned_completion <= 100,
\* end_date > start_date and actual_cost > 0.
C8_GeneratedProjectInvariants ==
    project # NoProject =>
        /\ project.Tasks_Completed <= project.Tasks_Total
        /\ 0 <= project.Actual_Completion /\ project.Actual_Completion <= 100
        /\ 0 <= project.Planned_Completion /\ project.Planned_Completion <= 100
        /\ DateLess(project.Start_Date, project.End_Date)
        /\ project.Actual_Cost > 0

C8_Witness ==
    /\ project # NoProject
    /\ project.Status = "In Progress"
    /\ project.Actual_Completion = 95
    /\ project.Tasks_Total = 80
    /\ project.Tasks_Completed = 76
    /\ project.Start_Date = <<2024, 12, 28>>
    /\ project.End_Date[1] = 2025

\* C9 (checked under SpecGen): generate_department_dataset(dept, id_start, N)
\* returns exactly N records whose Project_IDs are id_start, id_start+1, ...,
\* id_start+N-1 in order and whose Project_Names are pairwise distinct, for
\* every N up to the size of the department's name pool.
C9_DenseIdsDistinctNames ==
    /\ gen_pc = "error" => num_projects > PoolSize
    /\ \A d \in DOMAIN csv_files :
           /\ Len(csv_files[d]) = num_projects
           /\ \A k \in 1..Len(csv_files[d]) :
                  csv_files[d][k].Project_ID = IdStart(d) + k - 1
           /\ \A a, b \in 1..Len(csv_files[d]) :
                  a # b => csv_files[d][a].Project_Name # csv_files[d][b].Project_Name

C9_Witness ==
    /\ gen_pc = "done"
    /\ num_projects = PoolSize
    /\ Len(csv_files["IT"]) = PoolSize
    /\ csv_files["IT"][PoolSize].Project_ID = 3001 + PoolSize - 1

\* C10 (checked under SpecGen): across the three generated department
\* datasets (base offsets 1001, 2001, 3001) the project_id sets are pairwise
\* disjoint and no set repeats an id, so project_ids are globally unique.
C10_GloballyUniqueIds ==
    \A d1, d2 \in DOMAIN csv_files :
        \A a \in 1..Len(csv_files[d1]), b \in 1..Len(csv_files[d2]) :
            csv_files[d1][a].Project_ID = csv_files[d2][b].Project_ID =>
                (d1 = d2 /\ a = b)

C10_Witness ==
    /\ gen_pc = "done"
    /\ DOMAIN csv_files = {"Marketing", "Operations", "IT"}
    /\ \A d \in DOMAIN csv_files : Len(csv_files[d]) >= 2

\* ---------------------------------------------------------------------------
\* validate_data.py: validate_datasets()
\*
\* A dataframe is [columns |-> sequence of column names, rows |-> sequence of
\* rows]; a row is a function from column names to cells, and a cell that is
\* NaN/NaT (an empty CSV field, a column the source frame of a concat did not
\* have, a coerced date) is a column outside the row's DOMAIN.  Costs are in
\* whole dollars here.  A date in a CSV file is the text <<year, month, day>>.
\* ---------------------------------------------------------------------------

expected_columns ==
    <<"Project_ID", "Department", "Project_Name", "Manager",
      "Start_Date", "End_Date", "Planned_Cost", "Actual_Cost",
      "Planned_Completion", "Actual_Completion", "Status",
      "Tasks_Total", "Tasks_Completed", "Planned_Hours", "Actual_Hours">>

Cols(fr) == Range(fr.columns)

Has(r, c) == c \in DOMAIN r

Without(r, c) == [k \in DOMAIN r \ {c} |-> r[k]]

\* the indices of the rows of fr that satisfy a mask
Rows(fr) == 1..Len(fr.rows)

\* pd.to_datetime(text, errors='coerce'): the day number (1 = 2024-01-01) of
\* a calendar date of 2024 or 2025, NaT (0) for anything else
IsCalendarDate(t) ==
    /\ t[1] \in {2024, 2025}
    /\ t[2] \in 1..12
    /\ LET cum == IF t[1] = 2024 THEN CumDaysLeap ELSE CumDays
           len == IF t[2] = 12 THEN 31 ELSE cum[t[2] + 1] - cum[t[2]]
       IN  t[3] \in 1..len

ToDatetime(t) ==
    IF IsCalendarDate(t)
    THEN (IF t[1] = 2024 THEN CumDaysLeap[t[2]] + t[3]
                         ELSE 366 + CumDays[t[2]] + t[3])
    ELSE 0

\* pd.read_csv of a file that exists
ReadCsv(file) == [columns |-> file.columns, rows |-> file.rows]

\* pd.concat([a, b], ignore_index=True): the columns in order of first
\* appearance, the rows of a then the rows of b; a column a frame did not
\* have is NaN in its rows
Concat(a, b) ==
    LET IsNew(c) == c \notin Cols(a)
    IN  [columns |-> a.columns \o SelectSeq(b.columns, IsNew),
         rows |-> a.rows \o b.rows]

\* all_data.isnull().sum()[c]
NullCount(fr, c) == Cardinality({k \in Rows(fr) : ~Has(fr.rows[k], c)})

Issue(category, subject, n) == [category |-> category, subject |-> subject, n |-> n]

\* lines 44-58 for one (name, df)
SchemaIssues(name, fr) ==
    LET missing_cols == Range(expected_columns) \ Cols(fr)
        extra_cols == Cols(fr) \ Range(expected_columns)
    IN  (IF missing_cols # {}
         THEN <<Issue("missing columns", name, Cardinality(missing_cols))>>
         ELSE <<>>)
        \o (IF extra_cols # {}
            THEN <<Issue("extra columns", name, Cardinality(extra_cols))>>
            ELSE <<>>)

\* all_data.duplicated(subset=['Project_ID'], keep=False): NaN ids count as
\* equal to each other
DuplicateIds(fr) ==
    LET id(k) == IF Has(fr.rows[k], "Project_ID") THEN fr.rows[k]["Project_ID"] ELSE 0
    IN  {k \in Rows(fr) : \E j \in Rows(fr) : j # k /\ id(j) = id(k)}

\* lines 90-100: one entry per column that has a missing value, in column order
MissingValueIssues(fr) ==
    LET Some(c) == NullCount(fr, c) > 0
        cols == SelectSeq(fr.columns, Some)
    IN  [k \in 1..Len(cols) |-> Issue("missing values", cols[k], NullCount(fr, cols[k]))]

\* lines 107-108: both date columns through to_datetime
CoerceDates(fr) ==
    LET conv(r) ==
            [c \in {c \in DOMAIN r :
                       c \in {"Start_Date", "End_Date"} => IsCalendarDate(r[c])} |->
                IF c \in {"Start_Date", "End_Date"} THEN ToDatetime(r[c]) ELSE r[c]]
    IN  [fr EXCEPT !.rows = [k \in Rows(fr) |-> conv(fr.rows[k])]]

\* line 124: Duration_Days = (End_Date - Start_Date).dt.days, NaN when either
\* date is NaT
WithDurationDays(fr) ==
    [columns |-> fr.columns \o <<"Duration_Days">>,
     rows |-> [k \in Rows(fr) |->
                 LET r == fr.rows[k]
                 IN  IF Has(r, "Start_Date") /\ Has(r, "End_Date")
                     THEN r @@ ("Duration_Days" :> (r["End_Date"] - r["Start_Date"]))
                     ELSE r]]

\* (Actual_Cost - Planned_Cost) / Planned_Cost * 100 in float64, kept as the
\* exact quotient num/den; a zero divisor gives inf, -inf or NaN
VariancePct(actual, planned) ==
    IF planned = 0
    THEN [kind |-> IF actual > 0 THEN "inf" ELSE IF actual < 0 THEN "-inf" ELSE "nan",
          num |-> 0, den |-> 0]
    ELSE [kind |-> "num", num |-> (actual - planned) * 100, den |-> planned]

\* abs(v) > 50
ExtremeVariance(v) ==
    \/ v.kind \in {"inf", "-inf"}
    \/ v.kind = "num" /\ Abs(v.num) > 50 * Abs(v.den)

\* line 160: Cost_Variance_Pct, NaN when a cost is NaN or the quotient is 0/0
WithCostVariancePct(fr) ==
    [columns |-> fr.columns \o <<"Cost_Variance_Pct">>,
     rows |-> [k \in Rows(fr) |->
                 LET r == fr.rows[k]
                 IN  IF /\ Has(r, "Actual_Cost") /\ Has(r, "Planned_Cost")
                        /\ VariancePct(r["Actual_Cost"], r["Planned_Cost"]).kind # "nan"
                     THEN r @@ ("Cost_Variance_Pct" :>
                                    VariancePct(r["Actual_Cost"], r["Planned_Cost"]))
                     ELSE r]]

\* the rows where column c is not NaN and is <= bound / < bound / > bound
RowsAtMost(fr, c, bound) ==
    {k \in Rows(fr) : Has(fr.rows[k], c) /\ fr.rows[k][c] <= bound}

RowsBelow(fr, c, bound) ==
    {k \in Rows(fr) : Has(fr.rows[k], c) /\ fr.rows[k][c] < bound}

RowsAbove(fr, c, bound) ==
    {k \in Rows(fr) : Has(fr.rows[k], c) /\ fr.rows[k][c] > bound}

\* the range of the first department taken for every department
MarketingRange(dept) == <<10000, 50000>>

\* lines 231-235: the expected planned-cost range of each department
expected_range(dept) ==
    IF dept = "Marketing" THEN <<10000, 50000>>
    ELSE IF dept = "Operations" THEN <<15000, 75000>>
    ELSE <<20000, 100000>>

\* line 241
OutOfRange(fr, dept) ==
    RowsBelow(fr, "Planned_Cost", expected_range(dept)[1])
        \cup RowsAbove(fr, "Planned_Cost", expected_range(dept)[2])

\* --- the CSV files validate_datasets is run on ---

\* a row as generate_project_data.py writes it; Notes is a field only of a file
\* whose header has that extra column
BaseRow(dept) ==
    [Project_ID |-> IdStart(dept), Department |-> dept,
     Project_Name |-> "Project A", Manager |-> "John Smith",
     Start_Date |-> <<2024, 3, 1>>, End_Date |-> <<2024, 6, 1>>,
     Planned_Cost |-> 30000, Actual_Cost |-> 33000,
     Planned_Completion |-> 100, Actual_Completion |-> 80,
     Status |-> "In Progress", Tasks_Total |-> 10, Tasks_Completed |-> 8,
     Planned_Hours |-> 400, Actual_Hours |-> 420, Notes |-> "n/a"]

MarketingRows ==
    LET b == BaseRow("Marketing")
    IN  {b,
         Without(b, "Manager"),
         [b EXCEPT !.Start_Date = <<2024, 13, 1>>],
         [b EXCEPT !.End_Date = <<2024, 3, 1>>],
         [b EXCEPT !.Actual_Cost = 0],
         [b EXCEPT !.Planned_Cost = 0],
         [b EXCEPT !.Actual_Completion = 101],
         [b EXCEPT !.Tasks_Completed = 11],
         [b EXCEPT !.Status = "Cancelled"],
         [b EXCEPT !.Planned_Hours = 0],
         [b EXCEPT !.Actual_Hours = -1],
         [b EXCEPT !.Actual_Cost = 48000],
         [b EXCEPT !.Planned_Cost = 60000, !.Actual_Cost = 66000]}

OperationsRows ==
    LET b == BaseRow("Operations")
    IN  {b,
         [b EXCEPT !.Project_ID = IdStart("Marketing")],
         [b EXCEPT !.Tasks_Completed = 11],
         [b EXCEPT !.Planned_Cost = 12000, !.Actual_Cost = 13000]}

ITRows ==
    LET b == BaseRow("IT")
    IN  {b,
         [b EXCEPT !.Status = "Cancelled"],
         [b EXCEPT !.Actual_Cost = 12000]}

Lacking(c) == LET Keep(x) == x # c IN SelectSeq(expected_columns, Keep)

\* the header line of each of the three files
Headers ==
    LET all == [d \in Range(DeptOrder) |-> expected_columns]
    IN  {all,
         [all EXCEPT !["Marketing"] = Lacking("Project_ID")],
         [all EXCEPT !["Marketing"] = expected_columns \o <<"Notes">>],
         [all EXCEPT !["Marketing"] = Lacking("Status")],
         [d \in Range(DeptOrder) |-> Lacking("Status")],
         [d \in Range(DeptOrder) |-> Lacking("Project_Name")],
         [all EXCEPT !["Operations"] = Lacking("Planned_Cost")]}

CsvFile(columns, r) ==
    [exists |-> TRUE, columns |-> columns,
     rows |-> <<[c \in DOMAIN r \cap Range(columns) |-> r[c]]>>]

NoCsvFile == [exists |-> FALSE, columns |-> <<>>, rows |-> <<>>]

ValFiles ==
    LET present ==
            {[d \in Range(DeptOrder) |->
                 CsvFile(h[d], IF d = "Marketing" THEN m
                               ELSE IF d = "Operations" THEN o ELSE t)] :
                 <<h, m, o, t>> \in Headers \X MarketingRows \X OperationsRows \X ITRows}
        good == [d \in Range(DeptOrder) |-> CsvFile(expected_columns, BaseRow(d))]
    IN  present \cup {[good EXCEPT ![d] = NoCsvFile] : d \in Range(DeptOrder)}

\* the (name, df) lists of lines 44 and 231
DeptFrames ==
    <<[name |-> "Marketing", df |-> "marketing"],
      [name |-> "Operations", df |-> "operations"],
      [name |-> "IT", df |-> "it"]>>

ValInit ==
    /\ val_files \in ValFiles
    /\ val_pc = "load"
    /\ frames = <<>>
    /\ validation_passed = TRUE
    /\ issues = <<>>
    /\ warnings = {}
    /\ val_return = "none"
    /\ val_exit = "none"
    /\ KpiIdle
    /\ ProjIdle
    /\ GenIdle
    /\ LoadIdle
    /\ ReportIdle

otherVars == <<kpiVars, projVars, genVars, loadVars, reportVars>>

\* lines 17-31
LoadDatasets ==
    /\ val_pc = "load"
    /\ IF \A d \in Range(DeptOrder) : val_files[d].exists
       THEN LET marketing == ReadCsv(val_files["Marketing"])
                operations == ReadCsv(val_files["Operations"])
                it == ReadCsv(val_files["IT"])
            IN  /\ frames' = [marketing |-> marketing, operations |-> operations,
                              it |-> it,
                              all_data |-> Concat(Concat(marketing, operations), it)]
                /\ val_pc' = "schema"
                /\ val_return' = val_return
       ELSE /\ frames' = frames
            /\ val_pc' = "done"
            /\ val_return' = "False"
    /\ validation_passed' = TRUE
    /\ issues' = <<>>
    /\ UNCHANGED <<val_files, warnings, val_exit, otherVars>>

\* all_data[...] = ... reaching the marketing frame too, as if concat had not
\* copied its rows
AssignShared(fr, new_all_data) ==
    [fr EXCEPT !["all_data"] = new_all_data,
               !["marketing"] =
                   [columns |-> new_all_data.columns,
                    rows |-> SubSeq(new_all_data.rows, 1, Len(fr["marketing"].rows))]]

\* all_data[...] = ...: all_data is the copy made by pd.concat, the department
\* frames are other objects
AssignAllData(fr, new_all_data) == [fr EXCEPT !["all_data"] = new_all_data]

\* a check on all_data: a column it reads that all_data lacks raises KeyError
\* out of validate_datasets; otherwise all_data is left as new_all_data, the
\* issues found are appended and any of them clears validation_passed
Check(at, reads, next, new_all_data, found, warned) ==
    /\ val_pc = at
    /\ IF reads \subseteq Cols(frames["all_data"])
       THEN /\ frames' = AssignAllData(frames, new_all_data)
            /\ issues' = issues \o found
            /\ validation_passed' = (validation_passed /\ found = <<>>)
            /\ warnings' = warnings \cup warned
            /\ val_pc' = next
            /\ val_return' = val_return
       ELSE /\ val_pc' = "crashed"
            /\ val_return' = "KeyError"
            /\ UNCHANGED <<frames, issues, validation_passed, warnings>>
    /\ UNCHANGED <<val_files, val_exit, otherVars>>

\* lines 44-60
CheckSchema ==
    Check("schema", {}, "unique_ids", frames["all_data"],
          SchemaIssues("Marketing", frames["marketing"])
              \o SchemaIssues("Operations", frames["operations"])
              \o SchemaIssues("IT", frames["it"]),
          {})

\* lines 66-76
CheckUniqueIds ==
    LET duplicate_ids == DuplicateIds(frames["all_data"])
    IN  Check("unique_ids", {"Project_ID"}, "id_ranges", frames["all_data"],
              IF duplicate_ids # {}
              THEN <<Issue("duplicate ids", "", Cardinality(duplicate_ids))>>
              ELSE <<>>,
              {})

\* lines 78-86: reads Project_ID of each department's own frame
CheckIdRanges ==
    /\ val_pc = "id_ranges"
    /\ IF \A k \in 1..Len(DeptFrames) : "Project_ID" \in Cols(frames[DeptFrames[k].df])
       THEN /\ val_pc' = "missing_values"
            /\ val_return' = val_return
       ELSE /\ val_pc' = "crashed"
            /\ val_return' = "KeyError"
    /\ UNCHANGED <<val_files, frames, issues, validation_passed, warnings, val_exit, otherVars>>

\* lines 88-100
CheckMissingValues ==
    Check("missing_values", {}, "dates", frames["all_data"],
          MissingValueIssues(frames["all_data"]), {})

\* lines 106-121
CheckDateFormat ==
    LET all_data == CoerceDates(frames["all_data"])
        invalid_start == NullCount(all_data, "Start_Date")
        invalid_end == NullCount(all_data, "End_Date")
    IN  Check("dates", {"Start_Date", "End_Date"}, "duration", all_data,
              IF invalid_start > 0 \/ invalid_end > 0
              THEN <<Issue("invalid date formats", "", invalid_start + invalid_end)>>
              ELSE <<>>,
              {})

Warning(kind, subject) == [kind |-> kind, subject |-> subject]

\* lines 123-139: Duration_Days is assigned before the rows are printed; the
\* print selects four columns of all_data
CheckDateLogic ==
    LET all_data == WithDurationDays(frames["all_data"])
        invalid_duration == RowsAtMost(all_data, "Duration_Days", 0)
        printed == {"Project_ID", "Project_Name", "Start_Date", "End_Date"}
    IN  /\ val_pc = "duration"
        /\ frames' = AssignAllData(frames, all_data)
        /\ IF invalid_duration # {} /\ ~(printed \subseteq Cols(all_data))
           THEN /\ val_pc' = "crashed"
                /\ val_return' = "KeyError"
                /\ UNCHANGED <<issues, validation_passed>>
           ELSE /\ issues' = issues \o
                       (IF invalid_duration # {}
                        THEN <<Issue("invalid date ranges", "", Cardinality(invalid_duration))>>
                        ELSE <<>>)
                /\ validation_passed' = (validation_passed /\ invalid_duration = {})
                /\ val_pc' = "cost"
                /\ val_return' = val_return
        /\ UNCHANGED <<val_files, warnings, val_exit, otherVars>>

\* lines 145-169
CheckCosts ==
    LET negative_planned == RowsAtMost(frames["all_data"], "Planned_Cost", 0)
        negative_actual == RowsAtMost(frames["all_data"], "Actual_Cost", 0)
        all_data == WithCostVariancePct(frames["all_data"])
        extreme_variance ==
            {k \in Rows(all_data) :
                /\ Has(all_data.rows[k], "Cost_Variance_Pct")
                /\ ExtremeVariance(all_data.rows[k]["Cost_Variance_Pct"])}
    IN  Check("cost", {"Planned_Cost", "Actual_Cost"}, "completion", all_data,
              IF negative_planned # {} \/ negative_actual # {}
              THEN <<Issue("non-positive costs", "",
                           Cardinality(negative_planned) + Cardinality(negative_actual))>>
              ELSE <<>>,
              IF extreme_variance # {} THEN {Warning("cost variance", "")} ELSE {})

\* lines 171-183
CheckCompletion ==
    LET invalid_planned == RowsBelow(frames["all_data"], "Planned_Completion", 0)
                               \cup RowsAbove(frames["all_data"], "Planned_Completion", 100)
        invalid_actual == RowsBelow(frames["all_data"], "Actual_Completion", 0)
                              \cup RowsAbove(frames["all_data"], "Actual_Completion", 100)
    IN  Check("completion", {"Planned_Completion", "Actual_Completion"}, "tasks",
              frames["all_data"],
              IF invalid_planned # {} \/ invalid_actual # {}
              THEN <<Issue("completion out of range", "",
                           Cardinality(invalid_planned) + Cardinality(invalid_actual))>>
              ELSE <<>>,
              {})

\* lines 185-195: the rows found are printed through four columns of all_data
CheckTasks ==
    LET all_data == frames["all_data"]
        invalid_tasks ==
            {k \in Rows(all_data) :
                /\ Has(all_data.rows[k], "Tasks_Completed")
                /\ Has(all_data.rows[k], "Tasks_Total")
                /\ all_data.rows[k]["Tasks_Completed"] > all_data.rows[k]["Tasks_Total"]}
    IN  Check("tasks",
              {"Tasks_Completed", "Tasks_Total"}
                  \cup (IF invalid_tasks # {} THEN {"Project_ID", "Project_Name"} ELSE {}),
              "status", all_data,
              IF invalid_tasks # {}
              THEN <<Issue("invalid task counts", "", Cardinality(invalid_tasks))>>
              ELSE <<>>,
              {})

\* lines 197-214: isin is False for NaN
CheckStatus ==
    LET all_data == frames["all_data"]
        invalid_status ==
            {k \in Rows(all_data) :
                ~(Has(all_data.rows[k], "Status")
                    /\ all_data.rows[k]["Status"] \in valid_statuses)}
    IN  Check("status", {"Status"}, "hours", all_data,
              IF invalid_status # {}
              THEN <<Issue("invalid status", "", Cardinality(invalid_status))>>
              ELSE <<>>,
              {})

\* the mask of line 218 with Planned_Hours < 0 in place of <= 0
NegativeHoursStrict(fr) ==
    RowsBelow(fr, "Planned_Hours", 0) \cup RowsBelow(fr, "Actual_Hours", 0)

\* line 218
NegativeHours(fr) ==
    RowsAtMost(fr, "Planned_Hours", 0) \cup RowsBelow(fr, "Actual_Hours", 0)

\* lines 216-225
CheckHours ==
    LET negative_hours == NegativeHours(frames["all_data"])
    IN  Check("hours", {"Planned_Hours", "Actual_Hours"}, "dept_ranges",
              frames["all_data"],
              IF negative_hours # {}
              THEN <<Issue("invalid hours", "", Cardinality(negative_hours))>>
              ELSE <<>>,
              {})

\* lines 231-243: each department's own frame in turn; the first one without
\* Planned_Cost raises KeyError after the warnings of those before it
CheckDepartmentRanges ==
    LET n == Len(DeptFrames)
        lacks == {k \in 1..n : "Planned_Cost" \notin Cols(frames[DeptFrames[k].df])}
        stop == IF lacks = {} THEN n + 1
                ELSE CHOOSE k \in lacks : \A j \in lacks : k <= j
        warned == {Warning("cost range", DeptFrames[k].name) :
                      k \in {k \in 1..(stop - 1) :
                                OutOfRange(frames[DeptFrames[k].df], DeptFrames[k].name) # {}}}
    IN  /\ val_pc = "dept_ranges"
        /\ warnings' = warnings \cup warned
        /\ IF lacks = {}
           THEN /\ val_pc' = "summary"
                /\ val_return' = val_return
           ELSE /\ val_pc' = "crashed"
                /\ val_return' = "KeyError"
        /\ UNCHANGED <<val_files, frames, issues, validation_passed, val_exit, otherVars>>

\* lines 245-268
Summary ==
    /\ val_pc = "summary"
    /\ val_pc' = "done"
    /\ val_return' = IF validation_passed THEN "True" ELSE "False"
    /\ UNCHANGED <<val_files, frames, issues, validation_passed, warnings, val_exit, otherVars>>

\* lines 271-272: __main__ drops the value validate_datasets returned, so the
\* interpreter ends with status 0; an exception that left the function ends
\* it with status 1
ValExit ==
    /\ val_pc \in {"done", "crashed"}
    /\ val_pc' = "exited"
    /\ val_exit' = IF val_pc = "crashed" THEN "1" ELSE "0"
    /\ UNCHANGED <<val_files, frames, issues, validation_passed, warnings, val_return,
                   otherVars>>

ValNext ==
    \/ ValExit
    \/ LoadDatasets
    \/ CheckSchema
    \/ CheckUniqueIds
    \/ CheckIdRanges
    \/ CheckMissingValues
    \/ CheckDateFormat
    \/ CheckDateLogic
    \/ CheckCosts
    \/ CheckCompletion
    \/ CheckTasks
    \/ CheckStatus
    \/ CheckHours
    \/ CheckDepartmentRanges
    \/ Summary

SpecVal == ValInit /\ [][ValNext]_vars

\* ---------------------------------------------------------------------------
\* Validator claims
\* ---------------------------------------------------------------------------

\* the records of the three files, as <<department, row number>>
Records(files) ==
    UNION {{<<d, k>> : k \in 1..Len(files[d].rows)} : d \in DOMAIN files}

Rec(files, x) == files[x[1]].rows[x[2]]

\* field c of record x
Field(files, x, c) == Rec(files, x)[c]

HardCategories ==
    {"schema", "duplicate id", "missing value", "unparseable date",
     "end_date <= start_date", "non-positive cost", "completion outside [0,100]",
     "tasks_completed > tasks_total", "status outside the enum", "hours"}

\* the record set violates hard category c, read off the files themselves
Violated(files, c) ==
    LET recs == Records(files)
        has(x, f) == f \in DOMAIN Rec(files, x)
    IN  \/ /\ c = "schema"
           /\ \E d \in DOMAIN files : Range(files[d].columns) # Range(expected_columns)
        \/ /\ c = "duplicate id"
           /\ \E x, y \in recs :
                 /\ x # y /\ has(x, "Project_ID") /\ has(y, "Project_ID")
                 /\ Field(files, x, "Project_ID") = Field(files, y, "Project_ID")
        \/ /\ c = "missing value"
           /\ \E x \in recs : Range(files[x[1]].columns) \ DOMAIN Rec(files, x) # {}
        \/ /\ c = "unparseable date"
           /\ \E x \in recs : \E f \in {"Start_Date", "End_Date"} :
                 has(x, f) /\ ~IsCalendarDate(Field(files, x, f))
        \/ /\ c = "end_date <= start_date"
           /\ \E x \in recs :
                 /\ has(x, "Start_Date") /\ IsCalendarDate(Field(files, x, "Start_Date"))
                 /\ has(x, "End_Date") /\ IsCalendarDate(Field(files, x, "End_Date"))
                 /\ ~DateLess(Field(files, x, "Start_Date"), Field(files, x, "End_Date"))
        \/ /\ c = "non-positive cost"
           /\ \E x \in recs : \E f \in {"Planned_Cost", "Actual_Cost"} :
                 has(x, f) /\ Field(files, x, f) <= 0
        \/ /\ c = "completion outside [0,100]"
           /\ \E x \in recs : \E f \in {"Planned_Completion", "Actual_Completion"} :
                 has(x, f) /\ Field(files, x, f) \notin 0..100
        \/ /\ c = "tasks_completed > tasks_total"
           /\ \E x \in recs :
                 /\ has(x, "Tasks_Completed") /\ has(x, "Tasks_Total")
                 /\ Field(files, x, "Tasks_Completed") > Field(files, x, "Tasks_Total")
        \/ /\ c = "status outside the enum"
           /\ \E x \in recs :
                 has(x, "Status") /\ Field(files, x, "Status") \notin valid_statuses
        \/ /\ c = "hours"
           /\ \E x \in recs :
                 \/ has(x, "Planned_Hours") /\ Field(files, x, "Planned_Hours") <= 0
                 \/ has(x, "Actual_Hours") /\ Field(files, x, "Actual_Hours") < 0

HardViolations(files) == {c \in HardCategories : Violated(files, c)}

\* the warning-level findings of a record set
WarningFinding(files) ==
    \E x \in Records(files) :
        /\ {"Planned_Cost", "Actual_Cost"} \subseteq DOMAIN Rec(files, x)
        /\ \/ /\ Field(files, x, "Planned_Cost") # 0
              /\ Abs(Field(files, x, "Actual_Cost") - Field(files, x, "Planned_Cost")) * 100
                     > 50 * Abs(Field(files, x, "Planned_Cost"))
           \/ Field(files, x, "Planned_Cost") < expected_range(x[1])[1]
           \/ Field(files, x, "Planned_Cost") > expected_range(x[1])[2]

\* the entries of the issue list that report hard category c
IssueCategories(c) ==
    IF c = "schema" THEN {"missing columns", "extra columns"}
    ELSE IF c = "duplicate id" THEN {"duplicate ids"}
    ELSE IF c = "missing value" THEN {"missing values"}
    ELSE IF c = "unparseable date" THEN {"invalid date formats"}
    ELSE IF c = "end_date <= start_date" THEN {"invalid date ranges"}
    ELSE IF c = "non-positive cost" THEN {"non-positive costs"}
    ELSE IF c = "completion outside [0,100]" THEN {"completion out of range"}
    ELSE IF c = "tasks_completed > tasks_total" THEN {"invalid task counts"}
    ELSE IF c = "status outside the enum" THEN {"invalid status"}
    ELSE {"invalid hours"}

Reported(c) == \E k \in 1..Len(issues) : issues[k].category \in IssueCategories(c)

\* validate_datasets has ended on three files that exist: it returned or an
\* exception left it
ValEnded ==
    /\ val_pc \in {"done", "crashed"}
    /\ \A d \in DOMAIN val_files : val_files[d].exists

\* C11: validate_datasets returns True exactly when the record set has no
\* hard violation (schema mismatch, duplicate id, missing value, unparseable
\* date, end_date <= start_date, non-positive cost, completion outside
\* [0,100], tasks_completed > tasks_total, status outside the enum,
\* planned_hours <= 0 or actual_hours < 0); warning-level findings (cost
\* variance above 50 %, planned cost outside the department's range) do not
\* change the result.
C11_PassIffNoHardViolation ==
    ValEnded => (val_return = "True" <=> HardViolations(val_files) = {})

\* a run that printed a warning and still returned True
C11_Witness ==
    /\ ValEnded
    /\ val_return = "True"
    /\ warnings # {}
    /\ WarningFinding(val_files)

\* C12: the validator never short-circuits: on a record set that violates
\* several categories at once, a schema violation among them, every check
\* category is evaluated (the scan reaches the summary), each violated
\* category has an entry in the issue list, and the result returned is FAIL.
C12_NoShortCircuit ==
    (ValEnded /\ Cardinality(HardViolations(val_files)) >= 2
        /\ "schema" \in HardViolations(val_files))
    => /\ val_pc = "done"
       /\ val_return = "False"
       /\ \A c \in HardViolations(val_files) : Reported(c)

\* C13: whenever a record has tasks_completed > tasks_total the result is
\* FAIL, the issue list has the entry for invalid task counts, and the checks
\* after it (status, hours, department ranges) are evaluated too.
C13_TaskViolationReported ==
    (ValEnded /\ "tasks_completed > tasks_total" \in HardViolations(val_files))
    => /\ val_pc = "done"
       /\ val_return = "False"
       /\ Reported("tasks_completed > tasks_total")

\* C14: validation never mutates its input: no step of validate_datasets
\* changes the three files, and once they are loaded no step changes the
\* rows, the fields or the field values of the three department frames.
C14_InputNotMutated ==
    [][/\ val_files' = val_files
       /\ val_pc \notin {"idle", "load", "done", "crashed"}
              => \A k \in 1..Len(DeptFrames) :
                     frames'[DeptFrames[k].df] = frames[DeptFrames[k].df]]_vars

\* a run that returned after adding its derived columns to all_data, the
\* department frames still being what was read from the files
C14_Witness ==
    /\ ValEnded
    /\ val_return \in {"True", "False"}
    /\ {"Duration_Days", "Cost_Variance_Pct"} \subseteq Cols(frames["all_data"])
    /\ \E k \in Rows(frames["all_data"]) : Has(frames["all_data"].rows[k], "Duration_Days")
    /\ \A k \in 1..Len(DeptFrames) :
           frames[DeptFrames[k].df] = ReadCsv(val_files[DeptFrames[k].name])

\* ---------------------------------------------------------------------------
\* The loaders: create_database.py (SQLite store) and etl_pipeline.py
\*
\* Each script is run MaxRuns times over the same three CSV files.  The rows
\* of table projects are kept in insertion order; a stored row carries the
\* Created_At the store stamps on it.
\* ---------------------------------------------------------------------------

\* rows per CSV file
MaxRows == 2

\* runs of a script over the same files
MaxRuns == 2

\* row k of a department's file; variant names what is wrong with it
LoadRow(dept, k, variant) ==
    LET b == [c \in Range(expected_columns) |-> BaseRow(dept)[c]]
        r == [b EXCEPT !.Project_ID = IdStart(dept) + k - 1,
                       !.Manager = DeptConfig(dept).managers[(k + 1) \div 2]]
    IN  CASE variant = "zero_cost" -> [r EXCEPT !.Planned_Cost = 0]
          [] variant = "dup_id" -> [r EXCEPT !.Project_ID = IdStart("Marketing")]
          [] variant = "shared_manager" ->
                 [r EXCEPT !.Manager = DeptConfig("Marketing").managers[1]]
          [] variant = "bad_completion" -> [r EXCEPT !.Actual_Completion = 101]
          [] variant = "on_time" -> [r EXCEPT !.Actual_Completion = 100]
          [] variant = "bad_date" -> [r EXCEPT !.End_Date = <<2024, 13, 1>>]
          [] variant = "bad_dates_hours" ->
                 [r EXCEPT !.End_Date = <<2024, 2, 1>>, !.Planned_Hours = 0,
                           !.Actual_Hours = -1]
          [] OTHER -> r

Variants(dept) ==
    IF dept = "Marketing" THEN {"ok", "zero_cost", "on_time"}
    ELSE IF dept = "Operations" THEN {"ok", "dup_id", "shared_manager"}
    ELSE {"ok", "bad_completion", "bad_dates_hours", "bad_date"}

\* the three files: each missing, or of 0..MaxRows rows the last of which
\* may be a variant
LoadFiles ==
    LET files(d) ==
            {NoCsvFile} \cup
            {[exists |-> TRUE, columns |-> expected_columns,
              rows |-> [k \in 1..n |-> LoadRow(d, k, IF k = n THEN v ELSE "ok")]] :
                 <<n, v>> \in (0..MaxRows) \X Variants(d)}
    IN  {[Marketing |-> m, Operations |-> o, IT |-> t] :
            <<m, o, t>> \in files("Marketing") \X files("Operations") \X files("IT")}

\* the loop order of csv_files (create_database) and CSV_FILES (ETL): the
\* department after d, "end" after the last
NextDept(d) ==
    IF d = "Marketing" THEN "Operations" ELSE IF d = "Operations" THEN "IT" ELSE "end"

LoadInit ==
    /\ in_files \in LoadFiles
    /\ script \in {"create_database", "etl"}
    /\ load_pc = "start"
    /\ load_run = 1
    /\ db_exists = FALSE
    /\ db_projects = <<>>
    /\ db_managers = {}
    /\ db_uncommitted = {}
    /\ load_report = {}
    /\ etl_tables = <<>>
    /\ etl_return = "none"
    /\ first_run = <<>>
    /\ now = 1
    /\ response = ""
    /\ mysql_up \in (IF script = "etl" THEN BOOLEAN ELSE {TRUE})
    /\ etl_steps = <<>>
    /\ kpis = <<>>
    /\ etl_exit = "none"
    /\ KpiIdle
    /\ ProjIdle
    /\ GenIdle
    /\ ValIdle
    /\ ReportIdle

notLoadVars == <<kpiVars, projVars, genVars, valVars, reportVars>>

\* the answers typed at the overwrite prompt
Responses == {"yes", "YES", "Yes", "no", "y", ""}

\* str.lower() left out: the answer compared as typed
AsTyped(answer) == answer

\* response.lower()
Lower(answer) == IF answer \in {"YES", "Yes"} THEN "yes" ELSE answer

\* create_database.py lines 18-179: an existing database file is kept and the
\* script returns unless the answer is 'yes'; otherwise the file is removed
\* and the empty tables are created and committed
CreateDatabase ==
    /\ script = "create_database"
    /\ load_pc = "start"
    /\ IF db_exists
       THEN /\ response' \in Responses
            /\ IF Lower(response') # "yes"
               THEN /\ load_pc' = "returned"
                    /\ UNCHANGED <<db_projects, db_managers, db_uncommitted>>
               ELSE /\ load_pc' = "Marketing"
                    /\ db_projects' = <<>>
                    /\ db_managers' = {}
                    /\ db_uncommitted' = {}
       ELSE /\ response' = response
            /\ load_pc' = "Marketing"
            /\ db_projects' = <<>>
            /\ db_managers' = {}
            /\ db_uncommitted' = {}
    /\ db_exists' = TRUE
    /\ UNCHANGED <<in_files, script, load_run, load_report, etl_tables, etl_return,
                   first_run, now, mysql_up, etl_steps, kpis, etl_exit, notLoadVars>>

\* to_sql(if_exists='append') without the PRIMARY KEY of Project_ID
ToSqlAcceptsNoKey(table, rows) == \A k \in DOMAIN rows : ProjectsChecks(rows[k])

\* the INSERTs of to_sql(if_exists='append') all succeed: every row passes the
\* CHECKs of table projects and no Project_ID is used twice (PRIMARY KEY)
ToSqlAccepts(table, rows) ==
    /\ \A k \in DOMAIN rows : ProjectsChecks(rows[k])
    /\ LET all == table \o rows
       IN  \A j, k \in DOMAIN all : j # k => all[j].Project_ID # all[k].Project_ID

\* lines 208-217: INSERT OR IGNORE INTO managers for the (Manager, Department)
\* pairs of df; Manager_Name is UNIQUE, so a name the table has is ignored
InsertOrIgnoreManagers(managers, rows) ==
    LET names == {m.Manager_Name : m \in managers}
        first == {k \in DOMAIN rows :
                     /\ rows[k].Manager \notin names
                     /\ \A j \in 1..(k - 1) : rows[j].Manager # rows[k].Manager}
    IN  managers \cup
        {[Manager_Name |-> rows[k].Manager, Department |-> rows[k].Department] :
            k \in first}

Report(d, problem) == [file |-> d, problem |-> problem]

\* lines 194-225, one iteration: to_sql runs in a transaction of the shared
\* connection, committed on success (with the manager rows still pending
\* from the file before) and rolled back on an integrity error (with them)
ImportCsv ==
    /\ script = "create_database"
    /\ load_pc \in Range(DeptOrder)
    /\ LET read == in_files[load_pc].rows
       IN  IF ~in_files[load_pc].exists
           THEN /\ load_report' = load_report \cup {Report(load_pc, "not found")}
                /\ UNCHANGED <<db_projects, db_managers, db_uncommitted>>
           ELSE IF read = <<>>
           THEN UNCHANGED <<db_projects, db_managers, db_uncommitted, load_report>>
           ELSE IF ToSqlAccepts(db_projects, read)
           THEN /\ db_projects' = db_projects \o
                       [k \in DOMAIN read |-> read[k] @@ ("Created_At" :> now)]
                /\ db_managers' = db_managers \cup db_uncommitted
                /\ db_uncommitted' =
                       InsertOrIgnoreManagers(db_managers \cup db_uncommitted, read)
                           \ (db_managers \cup db_uncommitted)
                /\ load_report' = load_report
           ELSE /\ db_uncommitted' = {}
                /\ load_report' = load_report \cup {Report(load_pc, "error")}
                /\ UNCHANGED <<db_projects, db_managers>>
    /\ load_pc' = IF NextDept(load_pc) = "end" THEN "commit" ELSE NextDept(load_pc)
    /\ UNCHANGED <<in_files, script, load_run, db_exists, etl_tables, etl_return,
                   first_run, now, response, mysql_up, etl_steps, kpis, etl_exit, notLoadVars>>

\* lines 227-383: conn.commit(), indexes, verification queries, close
CommitAndVerify ==
    /\ script = "create_database"
    /\ load_pc = "commit"
    /\ db_managers' = db_managers \cup db_uncommitted
    /\ db_uncommitted' = {}
    /\ load_pc' = "done"
    /\ UNCHANGED <<in_files, script, load_run, db_exists, db_projects, load_report,
                   etl_tables, etl_return, first_run, now, response, mysql_up, etl_steps, kpis, etl_exit, notLoadVars>>

\* etl_pipeline.py line 232: table_name = f"{dept_name}_projects"
TableOf(d) ==
    IF d = "Marketing" THEN "marketing_projects"
    ELSE IF d = "Operations" THEN "operations_projects" ELSE "it_projects"

\* transform_data on one row of the file: the dates become datetimes and the
\* four derived columns are added
TransformForLoad(r) ==
    LET start == ToDatetime(r.Start_Date)
        end == ToDatetime(r.End_Date)
        t == TransformRow(r)
    IN  [r EXCEPT !.Start_Date = start, !.End_Date = end]
        @@ [Delay_Days |-> end - start,
            Cost_Variance_Pct |-> t.Cost_Variance_Pct,
            On_Time |-> t.On_Time,
            Completion_Rate_Pct |-> t.Completion_Rate_Pct]

\* to_sql appending to the rows the table has
LoadAppend(tables, table_name, rows) ==
    (table_name :>
        (IF table_name \in DOMAIN tables THEN tables[table_name] \o rows ELSE rows))
    @@ tables

\* load_to_database: to_sql(if_exists='replace') drops the table and writes
\* the frame
LoadToDatabase(tables, table_name, rows) == (table_name :> rows) @@ tables

\* a step of run_etl_pipeline: what it does and for which department
Step(step, dept) == [step |-> step, dept |-> dept]

\* a date column of the file holds text pd.to_datetime raises on
Unparsed(file) ==
    \E k \in DOMAIN file.rows :
        \/ ~IsCalendarDate(file.rows[k].Start_Date)
        \/ ~IsCalendarDate(file.rows[k].End_Date)

\* the loop body going on to transform and load whatever the steps raise
IterationStepsAll(d, file, up) ==
    <<Step("extract", d), Step("transform", d), Step("load", d)>>

\* lines 224-233: the steps one iteration starts; extract_csv_data re-raises
\* FileNotFoundError, pd.to_datetime raises on text that is no date, to_sql
\* raises when the server cannot be reached, and each exception leaves the
\* loop for line 247
IterationSteps(d, file, up) ==
    IF ~file.exists THEN <<Step("extract", d)>>
    ELSE IF Unparsed(file) THEN <<Step("extract", d), Step("transform", d)>>
    ELSE <<Step("extract", d), Step("transform", d), Step("load", d)>>

\* run_etl_pipeline line 217: create_engine builds the engine without
\* connecting
CreateDbConnection ==
    /\ script = "etl"
    /\ load_pc = "start"
    /\ load_pc' = "Marketing"
    /\ UNCHANGED <<in_files, script, load_run, db_exists, db_projects, db_managers,
                   db_uncommitted, load_report, etl_tables, etl_return, first_run,
                   now, response, mysql_up, etl_steps, kpis, etl_exit, notLoadVars>>

\* run_etl_pipeline lines 220-233, one iteration: extract, transform, load
ProcessDepartment ==
    /\ script = "etl"
    /\ load_pc \in Range(DeptOrder)
    /\ LET file == in_files[load_pc]
       IN  /\ etl_steps' = etl_steps \o IterationSteps(load_pc, file, mysql_up)
           /\ IF ~file.exists \/ Unparsed(file) \/ ~mysql_up
              THEN /\ load_report' = load_report \cup
                          {Report(load_pc, IF file.exists THEN "error" ELSE "not found")}
                   /\ etl_return' = "False"
                   /\ load_pc' = "done"
                   /\ etl_tables' = etl_tables
              ELSE /\ etl_tables' =
                          LoadToDatabase(etl_tables, TableOf(load_pc),
                                         [k \in DOMAIN file.rows |->
                                             TransformForLoad(file.rows[k])])
                   /\ load_pc' = IF NextDept(load_pc) = "end" THEN "consolidate"
                                 ELSE NextDept(load_pc)
                   /\ UNCHANGED <<load_report, etl_return>>
    /\ UNCHANGED <<in_files, script, load_run, db_exists, db_projects, db_managers,
                   db_uncommitted, first_run, now, response, mysql_up, kpis, etl_exit,
                   notLoadVars>>

\* pd.read_sql of a table to_sql wrote: the boolean column On_Time is a
\* TINYINT(1) in MySQL and comes back as the integers 1 and 0
ReadSql(rows) ==
    [k \in DOMAIN rows |-> [rows[k] EXCEPT !.On_Time = IF @ THEN 1 ELSE 0]]

\* astype(str) of a column that came back as float
AsStrFloat(v) == IF v = 1 THEN "1.0" ELSE "0.0"

\* astype(str).str.lower() of the integers 1 and 0
AsStr(v) == IF v = 1 THEN "1" ELSE "0"

\* calculate_kpis lines 177-193: On_Time is re-derived from its string form;
\* of the dictionary the count KPIs are kept (the averages and sums are
\* logged and read by nothing)
CalculateKpis(frame) ==
    LET on_time == {k \in DOMAIN frame :
                       AsStr(frame[k].On_Time) \in {"yes", "true", "1", "on time"}}
        over == {k \in DOMAIN frame :
                    \/ frame[k].Cost_Variance_Pct.kind = "inf"
                    \/ /\ frame[k].Cost_Variance_Pct.kind = "num"
                       /\ frame[k].Cost_Variance_Pct.h > 0}
    IN  [total_projects |-> Len(frame),
         on_time |-> Cardinality(on_time),
         on_time_delivery_pct |->
             IF Len(frame) > 0 THEN RoundHalfEven(Cardinality(on_time), Len(frame)) ELSE 0,
         projects_over_budget |-> Cardinality(over),
         projects_delayed |-> Len(frame) - Cardinality(on_time)]

\* run_etl_pipeline lines 235-245: consolidate_departments reads the three
\* tables, stamps every row with Last_Updated and replaces
\* consolidated_projects; calculate_kpis works on the frame in memory
ConsolidateDepartments ==
    /\ script = "etl"
    /\ load_pc = "consolidate"
    /\ LET all_projects == ReadSql(etl_tables["marketing_projects"])
                               \o ReadSql(etl_tables["operations_projects"])
                               \o ReadSql(etl_tables["it_projects"])
       IN  /\ etl_tables' =
                  LoadToDatabase(etl_tables, "consolidated_projects",
                                 [k \in DOMAIN all_projects |->
                                     all_projects[k] @@ ("Last_Updated" :> now)])
           /\ kpis' = CalculateKpis(all_projects)
    /\ etl_steps' = etl_steps \o <<Step("consolidate", "all"), Step("kpis", "all")>>
    /\ etl_return' = "True"
    /\ load_pc' = "done"
    /\ UNCHANGED <<in_files, script, load_run, db_exists, db_projects, db_managers,
                   db_uncommitted, load_report, first_run, now, response, mysql_up,
                   etl_exit, notLoadVars>>

\* etl_pipeline.py lines 254-256: sys.exit(0 if success else 1)
EtlExit ==
    /\ script = "etl"
    /\ load_pc = "done"
    /\ load_pc' = "exited"
    /\ etl_exit' = IF etl_return = "True" THEN "0" ELSE "1"
    /\ UNCHANGED <<in_files, script, load_run, db_exists, db_projects, db_managers,
                   db_uncommitted, load_report, etl_tables, etl_return, first_run,
                   now, response, mysql_up, etl_steps, kpis, notLoadVars>>

\* the script is started again over the same files, at the same or a later
\* reading of the clock; the contents the first run left are remembered
RunAgain ==
    /\ \/ script = "create_database" /\ load_pc \in {"done", "returned"}
       \/ script = "etl" /\ load_pc = "exited"
    /\ load_run < MaxRuns
    /\ load_run' = load_run + 1
    /\ load_pc' = "start"
    /\ first_run' = IF load_run = 1
                    THEN [projects |-> db_projects, managers |-> db_managers,
                          tables |-> etl_tables]
                    ELSE first_run
    /\ now' \in {now, now + 1}
    /\ load_report' = {}
    /\ etl_return' = "none"
    /\ etl_steps' = <<>>
    /\ kpis' = <<>>
    /\ etl_exit' = "none"
    /\ UNCHANGED <<in_files, script, db_exists, db_projects, db_managers,
                   db_uncommitted, etl_tables, response, mysql_up, notLoadVars>>

LoadNext ==
    \/ CreateDatabase
    \/ ImportCsv
    \/ CommitAndVerify
    \/ CreateDbConnection
    \/ ProcessDepartment
    \/ ConsolidateDepartments
    \/ EtlExit
    \/ RunAgain

SpecLoad == LoadInit /\ [][LoadNext]_vars

\* ---------------------------------------------------------------------------
\* Loader claims
\* ---------------------------------------------------------------------------

\* a stored row without the time stamps the load put on it
ProjectRecord(r) == [c \in DOMAIN r \ {"Created_At", "Last_Updated"} |-> r[c]]

ProjectRecords(rows) == [k \in DOMAIN rows |-> ProjectRecord(rows[k])]

\* a run of the script has ended
LoadEnded == load_pc \in {"done", "returned"}

\* C15: after a load the managers table has as many rows as there are
\* distinct (manager name, department) pairs in the loaded project records,
\* also when one manager name appears in two departments.
C15_ManagersAreObservedPairs ==
    (script = "create_database" /\ load_pc = "done")
    => Cardinality(db_managers)
           = Cardinality({<<r.Manager, r.Department>> : r \in Range(db_projects)})

\* C16 as stated: after any further run over the same files the target
\* tables hold the same rows as after a single run.
C16_SameRowsAsSingleRun ==
    (LoadEnded /\ load_run >= 2)
    => /\ db_projects = first_run.projects
       /\ etl_tables = first_run.tables

\* C16: after any further run over the same files, each target table
\* (projects; the three department tables and consolidated_projects) holds
\* the same project records, in the same number, as after a single run; only
\* the load-time stamps Created_At and Last_Updated may differ.
C16_SameProjectRecords ==
    (LoadEnded /\ load_run >= 2)
    => /\ ProjectRecords(db_projects) = ProjectRecords(first_run.projects)
       /\ DOMAIN etl_tables = DOMAIN first_run.tables
       /\ \A t \in DOMAIN etl_tables :
              ProjectRecords(etl_tables[t]) = ProjectRecords(first_run.tables[t])

\* a second run of the ETL that rewrote non-empty tables at a later time
C16_Witness ==
    /\ script = "etl"
    /\ load_pc = "done"
    /\ load_run >= 2
    /\ etl_return = "True"
    /\ etl_tables["consolidated_projects"] # <<>>
    /\ etl_tables["marketing_projects"] # <<>>
    /\ etl_tables # first_run.tables

\* C17: every row of the stored projects table has planned_cost > 0 and
\* actual_cost > 0; the store rejects a record whose cost is 0.
C17_StoredCostsPositive ==
    \A k \in DOMAIN db_projects :
        db_projects[k].Planned_Cost > 0 /\ db_projects[k].Actual_Cost > 0

\* C18: every row of the stored projects table has end_date > start_date,
\* planned_hours > 0 and actual_hours >= 0.
C18_StoredDatesAndHours ==
    \A k \in DOMAIN db_projects :
        /\ DateLess(db_projects[k].Start_Date, db_projects[k].End_Date)
        /\ db_projects[k].Planned_Hours > 0
        /\ db_projects[k].Actual_Hours >= 0

\* C19: at every point of the import no two rows of table projects share a
\* project_id, also when two department files contain the same id, and every
\* stored row has completion values in [0,100], tasks_completed <=
\* tasks_total and a status of the five-value set.
C19_UniqueIdsAndChecks ==
    /\ \A j, k \in DOMAIN db_projects :
           j # k => db_projects[j].Project_ID # db_projects[k].Project_ID
    /\ \A k \in DOMAIN db_projects :
           /\ db_projects[k].Planned_Completion \in 0..100
           /\ db_projects[k].Actual_Completion \in 0..100
           /\ db_projects[k].Tasks_Completed <= db_projects[k].Tasks_Total
           /\ db_projects[k].Status \in valid_statuses

\* an import that ended with a Marketing row stored whose id the Operations
\* file has too, the Operations file being reported
C19_Witness ==
    /\ script = "create_database"
    /\ load_pc = "done"
    /\ Report("Operations", "error") \in load_report
    /\ \E j \in DOMAIN db_projects : \E k \in DOMAIN in_files["Operations"].rows :
           /\ db_projects[j].Department = "Marketing"
           /\ db_projects[j].Project_ID = in_files["Operations"].rows[k].Project_ID

\* C20: when one department's file is missing (the files present holding
\* records the store accepts), the loader reports that file, skips only that
\* department and imports every record of the other two: the number of
\* projects stored is the sum of the row counts of the files present.
C20_MissingFileSkipsOnlyItsDepartment ==
    LET missing == {d \in DOMAIN in_files : ~in_files[d].exists}
        present == DOMAIN in_files \ missing
        total == Len(in_files["Marketing"].rows) + Len(in_files["Operations"].rows)
                     + Len(in_files["IT"].rows)
    IN  (/\ load_pc = "done"
         /\ Cardinality(missing) = 1
         /\ ToSqlAccepts(<<>>, in_files["Marketing"].rows \o in_files["Operations"].rows
                                   \o in_files["IT"].rows))
        => /\ \A d \in missing : Report(d, "not found") \in load_report
           /\ script = "create_database" =>
                  /\ Len(db_projects) = total
                  /\ \A d \in present :
                         Range(in_files[d].rows) \subseteq Range(ProjectRecords(db_projects))
           /\ script = "etl" =>
                  /\ \A d \in present :
                         /\ TableOf(d) \in DOMAIN etl_tables
                         /\ Len(etl_tables[TableOf(d)]) = Len(in_files[d].rows)
                  /\ "consolidated_projects" \in DOMAIN etl_tables
                  /\ Len(etl_tables["consolidated_projects"]) = total

\* ---------------------------------------------------------------------------
\* Entry points, report layer and end-to-end claims
\* ---------------------------------------------------------------------------

\* C21: the validation entry point ends with exit status zero exactly on
\* full success: the status is non-zero whenever a required input file is
\* absent and whenever validation returns FAIL.
C21_ExitStatusZeroIffPass ==
    val_pc = "exited" => (val_exit = "0" <=> val_return = "True")

\* C28: when the database file exists and the answer to the overwrite prompt
\* is anything but 'yes' in some letter case, create_database returns with
\* the store as it was: no row of projects or managers is added or removed;
\* the store is emptied and rebuilt only after a 'yes'.
C28_KeepStoreUnlessYes ==
    [][(script = "create_database" /\ load_pc = "start" /\ db_exists)
       => IF response' \in {"yes", "Yes", "YES"}
          THEN /\ load_pc' = "Marketing"
               /\ db_projects' = <<>>
               /\ db_managers' = {}
          ELSE /\ load_pc' = "returned"
               /\ db_exists'
               /\ db_projects' = db_projects
               /\ db_managers' = db_managers
               /\ db_uncommitted' = db_uncommitted]_vars

\* a second run that was answered otherwise than 'yes' and returned, the
\* store holding the rows of the first run
C28_Witness ==
    /\ script = "create_database"
    /\ load_pc = "returned"
    /\ response \in {"no", "y", ""}
    /\ db_projects # <<>>
    /\ db_projects = first_run.projects
    /\ db_managers = first_run.managers


\* the records of the three department files, in the order they are processed
FileRecords ==
    in_files["Marketing"].rows \o in_files["Operations"].rows \o in_files["IT"].rows

\* C25: in the aggregate pipeline every loaded row has On_Time equal to
\* (Actual_Completion >= Planned_Completion), and after a run that reached the
\* KPI calculation projects_delayed is the number of file records with
\* Actual_Completion < Planned_Completion and the on-time count plus
\* projects_delayed is total_projects. (The files hold a value in every cell.)
C25_OnTimeIffCompletionReached ==
    script = "etl" =>
        /\ \A d \in Range(DeptOrder) :
               TableOf(d) \in DOMAIN etl_tables =>
                   \A k \in DOMAIN etl_tables[TableOf(d)] :
                       LET row == etl_tables[TableOf(d)][k]
                       IN  row.On_Time
                               <=> (row.Actual_Completion >= row.Planned_Completion)
        /\ etl_return = "True" =>
               /\ kpis.total_projects = Len(FileRecords)
               /\ kpis.projects_delayed =
                      Cardinality({k \in DOMAIN FileRecords :
                          FileRecords[k].Actual_Completion
                              < FileRecords[k].Planned_Completion})
               /\ kpis.on_time + kpis.projects_delayed = kpis.total_projects

\* a run that computed the KPIs over on-time and delayed records, one of the
\* on-time ones exactly at its planned completion
C25_Witness ==
    /\ script = "etl" /\ etl_return = "True"
    /\ kpis.projects_delayed > 0 /\ kpis.on_time > 0
    /\ \E k \in DOMAIN FileRecords :
           FileRecords[k].Actual_Completion = FileRecords[k].Planned_Completion

\* the steps of a run in which nothing fails
FullSteps ==
    <<Step("extract", "Marketing"), Step("transform", "Marketing"),
      Step("load", "Marketing"),
      Step("extract", "Operations"), Step("transform", "Operations"),
      Step("load", "Operations"),
      Step("extract", "IT"), Step("transform", "IT"), Step("load", "IT"),
      Step("consolidate", "all"), Step("kpis", "all")>>

IsPrefix(s, t) == Len(s) <= Len(t) /\ \A k \in DOMAIN s : s[k] = t[k]

\* what makes a step fail, read off the inputs of the run
StepFails(st) ==
    CASE st.step = "extract" -> ~in_files[st.dept].exists
      [] st.step = "transform" ->
             \E k \in DOMAIN in_files[st.dept].rows :
                 LET r == in_files[st.dept].rows[k]
                 IN  ~IsCalendarDate(r.Start_Date) \/ ~IsCalendarDate(r.End_Date)
      [] st.step \in {"load", "consolidate"} -> ~mysql_up
      [] OTHER -> FALSE

\* C26: the steps a run has started are a prefix of the fixed order (per
\* department extract, transform, load; then consolidate; then KPIs), every
\* step before the last one started has succeeded, the run returns False
\* exactly at a failing step, which is then the last one, returns True only
\* after all eleven steps succeeded, and the process exits 0 after True and 1
\* after False.
C26_FixedOrderFailFast ==
    script = "etl" =>
        /\ IsPrefix(etl_steps, FullSteps)
        /\ \A k \in 1..(Len(etl_steps) - 1) : ~StepFails(etl_steps[k])
        /\ etl_return = "False" =>
               etl_steps # <<>> /\ StepFails(etl_steps[Len(etl_steps)])
        /\ etl_return = "True" =>
               etl_steps = FullSteps /\ \A k \in DOMAIN etl_steps : ~StepFails(etl_steps[k])
        /\ etl_return = "none" =>
               \A k \in DOMAIN etl_steps : ~StepFails(etl_steps[k])
        /\ IF load_pc = "exited"
           THEN \/ etl_exit = "0" /\ etl_return = "True"
                \/ etl_exit = "1" /\ etl_return = "False"
           ELSE etl_exit = "none"

\* a run that stopped at the transform of the third department, after two
\* departments were loaded, and exited with status 1
C26_Witness ==
    /\ script = "etl" /\ load_pc = "exited" /\ etl_exit = "1"
    /\ Len(etl_steps) = 8
    /\ etl_steps[8] = Step("transform", "IT")


----------------------------------------------------------------------------
(* The report layer (test_database_queries.py) *)

\* rows of table projects chosen freely, besides the filler rows
MaxStoreRows == 2

\* LIMIT 10 of risk_query
QueryLimit == 10

\* status, costs (in cents) and completion of the projects a store may hold
RiskProfiles ==
    {[Status |-> "In Progress", Planned_Cost |-> 100000, Actual_Cost |-> 100000,
      Actual_Completion |-> 90],
     [Status |-> "Delayed", Planned_Cost |-> 100000, Actual_Cost |-> 100000,
      Actual_Completion |-> 90],
     [Status |-> "On Hold", Planned_Cost |-> 100000, Actual_Cost |-> 100000,
      Actual_Completion |-> 90],
     [Status |-> "In Progress", Planned_Cost |-> 100000, Actual_Cost |-> 125000,
      Actual_Completion |-> 90],
     [Status |-> "In Progress", Planned_Cost |-> 100000, Actual_Cost |-> 120000,
      Actual_Completion |-> 90],
     [Status |-> "In Progress", Planned_Cost |-> 10000000, Actual_Cost |-> 12000400,
      Actual_Completion |-> 90],
     [Status |-> "Completed", Planned_Cost |-> 100000, Actual_Cost |-> 100000,
      Actual_Completion |-> 49],
     [Status |-> "Not Started", Planned_Cost |-> 0, Actual_Cost |-> 100000,
      Actual_Completion |-> 50]}

\* a row of projects as create_database.py stores it
StoreRow(project_id, profile) ==
    [Project_ID |-> project_id,
     Status |-> profile.Status,
     Planned_Cost |-> profile.Planned_Cost,
     Actual_Cost |-> profile.Actual_Cost,
     Planned_Completion |-> 100,
     Actual_Completion |-> profile.Actual_Completion,
     Tasks_Total |-> 3, Tasks_Completed |-> 1,
     Planned_Hours |-> 400, Actual_Hours |-> 300]

\* a delayed project (30 + k) % over budget
FillerRow(k) ==
    StoreRow(2000 + k,
             [Status |-> "Delayed", Planned_Cost |-> 100000,
              Actual_Cost |-> 130000 + 1000 * k, Actual_Completion |-> 90])

\* what may be at project_performance.db when the script starts: nothing, a
\* path sqlite3 cannot open, a database file without tables, or the database
\* create_database.py built, which holds any number of projects
Stores ==
    {[file |-> f, projects |-> <<>>] : f \in {"missing", "unopenable", "no_tables"}}
    \cup
    {[file |-> "initialized",
      projects |-> [k \in 1..n |-> StoreRow(1000 + k, chosen[k])]
                       \o [k \in 1..fill |-> FillerRow(k)]] :
        n \in 0..MaxStoreRows, fill \in {0, QueryLimit},
        chosen \in [1..MaxStoreRows -> RiskProfiles]}

notReportVars == <<kpiVars, projVars, genVars, valVars, loadVars>>

ReportInit ==
    /\ store \in Stores
    /\ rp_pc = "start"
    /\ risk_df = {}
    /\ export_file = NoExport
    /\ rp_messages = {}
    /\ KpiIdle /\ ProjIdle /\ GenIdle /\ ValIdle /\ LoadIdle

\* lines 16-23: sqlite3.connect creates an empty database file where there is
\* none; the except branch is taken only when the path cannot be opened
Connect ==
    /\ rp_pc = "start"
    /\ IF store.file = "unopenable"
       THEN /\ rp_messages' = {"Could not connect to database",
                               "Please run 'create_database.py' first!"}
            /\ rp_pc' = "returned"
            /\ store' = store
       ELSE /\ rp_messages' = {"Connected to database"}
            /\ rp_pc' = "test1"
            /\ store' = IF store.file = "missing"
                        THEN [store EXCEPT !.file = "no_tables"]
                        ELSE store
    /\ UNCHANGED <<risk_df, export_file, notReportVars>>

\* lines 33-43 (and the aggregates of TESTs 2 to 6, which print NULL for an
\* empty table): pd.read_sql raises DatabaseError, caught by nothing, when
\* there is no table projects
BasicTableQueries ==
    /\ rp_pc = "test1"
    /\ rp_pc' = IF store.file = "no_tables" THEN "raised" ELSE "test7"
    /\ UNCHANGED <<store, risk_df, export_file, rp_messages, notReportVars>>

\* the position of a Cost_Variance_Pct value under ORDER BY ... DESC: NULL
\* sorts below every number
SortKey(v) == IF v.kind = "null" THEN -(2^30) ELSE v.h

\* ORDER BY Cost_Variance_Pct DESC LIMIT n: the results the engine may give,
\* the order among equal keys being its choice
OrderByLimit(rows, n) ==
    IF Cardinality(rows) <= n THEN {rows}
    ELSE LET sure == {r \in rows :
                        Cardinality({q \in rows : SortKey(q.Cost_Variance_Pct)
                                          >= SortKey(r.Cost_Variance_Pct)}) <= n}
             tied == {r \in rows \ sure :
                        Cardinality({q \in rows : SortKey(q.Cost_Variance_Pct)
                                          > SortKey(r.Cost_Variance_Pct)}) < n}
         IN  {sure \cup t : t \in {u \in SUBSET tied :
                                      Cardinality(u) = n - Cardinality(sure)}}

\* the WHERE clause of risk_query: the unrounded quotient is compared with
\* 20, and a NULL quotient (Planned_Cost = 0) is not greater than anything
RiskWhere(r) ==
    \/ r.Status = "Delayed" \/ r.Status = "On Hold"
    \/ r.Planned_Cost # 0
       /\ (r.Actual_Cost - r.Planned_Cost) * 100 > 20 * r.Planned_Cost
    \/ r.Actual_Completion < 50

\* lines 207-229
RiskQuery ==
    /\ rp_pc = "test7"
    /\ risk_df' \in
           OrderByLimit({[Project_ID |-> r.Project_ID,
                          Status |-> r.Status,
                          Cost_Variance_Pct |-> CostVariancePct(r),
                          Actual_Completion |-> r.Actual_Completion] :
                            r \in {q \in Range(store.projects) : RiskWhere(q)}},
                        QueryLimit)
    /\ rp_pc' = "test10"
    /\ UNCHANGED <<store, export_file, rp_messages, notReportVars>>

\* SELECT * FROM kpi_metrics
ExportQuery(rows) ==
    {KpiMetricsRow(r) @@ [Project_ID |-> r.Project_ID] : r \in Range(rows)}

\* lines 276-300: the export, conn.close() and the closing banner
ExportConsolidated ==
    /\ rp_pc = "test10"
    /\ export_file' = [written |-> TRUE, rows |-> ExportQuery(store.projects)]
    /\ rp_messages' = rp_messages \cup {"ALL TESTS COMPLETED SUCCESSFULLY!"}
    /\ rp_pc' = "done"
    /\ UNCHANGED <<store, risk_df, notReportVars>>

ReportNext ==
    \/ Connect
    \/ BasicTableQueries
    \/ RiskQuery
    \/ ExportConsolidated

SpecReport == ReportInit /\ [][ReportNext]_vars

\* the run of test_database_queries is over
ReportEnded == rp_pc \in {"returned", "raised", "done"}

\* the 2-decimal KPI cost_variance_pct of a stored project is above 20
RoundedVarianceAbove20(r) ==
    CostVariancePct(r).kind = "num" /\ CostVariancePct(r).h > 2000

\* C22: once the risk query has run, a stored project is in its result
\* exactly when its status is Delayed or On Hold, or its rounded
\* cost_variance_pct is above 20, or its actual completion is below 50.
C22_HighRiskExactlyFilter ==
    rp_pc \in {"test10", "done"} =>
        \A r \in Range(store.projects) :
            (\E x \in risk_df : x.Project_ID = r.Project_ID)
                <=> \/ r.Status \in {"Delayed", "On Hold"}
                    \/ RoundedVarianceAbove20(r)
                    \/ r.Actual_Completion < 50

\* C23: a run that found no store file, no table projects or no rows ends
\* by returning, having said that the store is not initialized.
C23_UninitializedStoreReported ==
    (ReportEnded /\ (store.file # "initialized" \/ store.projects = <<>>))
        => /\ rp_pc # "raised"
           /\ "Please run 'create_database.py' first!" \in rp_messages

\* C24: no step of the report script changes the store, and the only thing
\* it writes is the export file, whose rows are the rows of kpi_metrics.
C24_ReadOnlyButExport ==
    [][rp_pc # "idle" =>
          /\ store' = store
          /\ export_file' # export_file =>
                 export_file'.rows = ExportQuery(store.projects)]_vars


----------------------------------------------------------------------------
(* The generator's output under the validator *)

\* the keys of the dictionary generate_realistic_project returns, which
\* pd.DataFrame takes as the columns, in order
GeneratedColumns ==
    <<"Project_ID", "Department", "Project_Name", "Manager", "Start_Date",
      "End_Date", "Planned_Cost", "Actual_Cost", "Planned_Completion",
      "Actual_Completion", "Status", "Tasks_Total", "Tasks_Completed",
      "Planned_Hours", "Actual_Hours">>

\* pd.DataFrame(projects).to_csv(..., index=False) read back by pd.read_csv:
\* the file holds the costs in dollars (the generator's records above hold
\* them in cents)
ToCsv(records) ==
    [columns |-> GeneratedColumns,
     rows |-> [k \in DOMAIN records |->
                  [records[k] EXCEPT !.Planned_Cost = @ \div 100,
                                     !.Actual_Cost = @ \div 100]]]

\* C27 (checked under SpecProject): the file made of any record
\* generate_realistic_project returns gives the validator nothing to report,
\* neither an issue of any of its checks nor a warning (cost variance above
\* 50 %, planned cost outside the department's range); the record has
\* 0.85 * planned_cost <= actual_cost <= 1.20 * planned_cost, planned_hours > 0,
\* actual_hours >= 0 and one of the five statuses.
C27_GeneratedRecordPassesValidation ==
    project # NoProject =>
        LET fr == ToCsv(<<project>>)
            dated == CoerceDates(fr)
            timed == WithDurationDays(dated)
            costed == WithCostVariancePct(fr)
        IN  /\ SchemaIssues(project.Department, fr) = <<>>
            /\ DuplicateIds(fr) = {}
            /\ MissingValueIssues(fr) = <<>>
            /\ NullCount(dated, "Start_Date") = 0 /\ NullCount(dated, "End_Date") = 0
            /\ RowsAtMost(timed, "Duration_Days", 0) = {}
            /\ RowsAtMost(fr, "Planned_Cost", 0) = {}
            /\ RowsAtMost(fr, "Actual_Cost", 0) = {}
            /\ \A k \in Rows(costed) :
                   /\ Has(costed.rows[k], "Cost_Variance_Pct")
                   /\ ~ExtremeVariance(costed.rows[k]["Cost_Variance_Pct"])
            /\ RowsBelow(fr, "Planned_Completion", 0) = {}
            /\ RowsAbove(fr, "Planned_Completion", 100) = {}
            /\ RowsBelow(fr, "Actual_Completion", 0) = {}
            /\ RowsAbove(fr, "Actual_Completion", 100) = {}
            /\ fr.rows[1]["Tasks_Completed"] <= fr.rows[1]["Tasks_Total"]
            /\ fr.rows[1]["Status"] \in valid_statuses
            /\ NegativeHours(fr) = {}
            /\ OutOfRange(fr, project.Department) = {}
            /\ 85 * project.Planned_Cost <= 100 * project.Actual_Cost
            /\ 100 * project.Actual_Cost <= 120 * project.Planned_Cost
            /\ project.Planned_Hours > 0 /\ project.Actual_Hours >= 0

\* an IT project planned at the top of its range and 20 % over budget
C27_Witness ==
    /\ project # NoProject
    /\ project.Department = "IT"
    /\ project.Planned_Cost = 10000000
    /\ project.Actual_Cost = 12000000
    /\ project.Status = "On Hold"

====
